---- MODULE Spec2Model ----
(***************************************************************************)
(* A model of trace2 (src/trace2): the analyzer's run over a configuration *)
(* and a file system, its fingerprint cache, the rule engine that selects  *)
(* a module's expectation, and the similarity score and its classification.*)
(*                                                                         *)
(* Representation.                                                         *)
(*  - Identifiers (project, module, baseline, requirement, path) are       *)
(*    naturals >= 1; their order stands for Python's order of the strings. *)
(*    Star stands for the string "*".                                      *)
(*  - A text is a sequence of symbols: the letters "a", "b", "c", the      *)
(*    whitespace " " and "\n", and the comment marks "//", "/*", "*/".     *)
(*  - SHA-256 is modelled as a collision-free hash: the digest of x is x   *)
(*    behind the mark "#", so two digests are equal exactly when their     *)
(*    inputs are.                                                          *)
(*  - A simhash is the string of 16 lowercase hex digits the code formats, *)
(*    as a sequence of one-character strings.                              *)
(*  - A score is kept exactly, in 64ths (score = n/64); thresholds and     *)
(*    reported (rounded) scores are in ten-thousandths.                    *)
(*  - Python's None is <<>> and a present optional value x is <<x>>.       *)
(***************************************************************************)
EXTENDS Integers, Sequences, FiniteSets, TLC

VARIABLES
    scoreIn,    \* the arguments of one scoring: two fingerprints, an expectation, the defaults
    scoreOut,   \* None, or the score, the thresholds and the status computed from scoreIn
    ruleIn,     \* the arguments of one selection: rules, matrix, project id, module id
    ruleOut     \* None, or the requirements, the applicable rules and the expectation selected

VARIABLES
    config_dir,         \* the files of the configuration directory
    config,             \* None, or the ConfigBundle of the run
    fs,                 \* the trees: root -> (relative path -> text)
    remote,             \* the remote git repositories: repository -> (ref -> tree)
    git,                \* the cache directory's repos/ and worktrees/
    file_cache,         \* CacheStore's file_cache directory: key -> record
    module_cache,       \* CacheStore's module_cache directory: key -> record
    stats,              \* CacheStore.stats of the running process
    cache_calls,        \* the calls of CacheStore's get_* and set_* that the last module
                        \* analysis made, in their order
    _baseline_cache,    \* Analyzer._baseline_cache: baseline id -> (module id -> fingerprint)
    pc,                 \* "start", "ready", "projects", "modules", and at the end "done",
                        \* "failed", "rejected" or "crashed"; "idle" when nothing runs
    projects_left,      \* the sorted projects analyze() has still to visit
    project,            \* None, or the project _analyze_project is working on
    project_path,       \* None, or _analyze_project's project_path
    active_requirements,\* _analyze_project's active_requirements
    rules,              \* _analyze_project's rules
    modules_left,       \* the sorted modules _analyze_project has still to visit
    report_modules,     \* _analyze_project's report_modules
    evidence_modules,   \* _analyze_project's evidence_modules
    report_projects,    \* analyze()'s report_projects
    evidence_projects,  \* analyze()'s evidence_projects
    written,            \* None, or the artifacts written to the output directory
    exit_code,          \* None, or the exit code of analyze_command
    exception           \* None, or the exception that left analyze()

VARIABLES
    cache_dir,  \* a file_cache directory that two processes share: key -> the text of
                \* the file <key>.json
    procs       \* the two processes: where each is in _fingerprint_file, the files it
                \* has still to fingerprint, what its gets returned, its counters

VARIABLES
    git_call,   \* None, or the last call of checkout_git_source: its arguments, the git
                \* state before it, whether it raised, the path returned, the commands run
    git_count   \* how often a mirror was cloned and a worktree was added, each up to MaxCount

pureVars == <<scoreIn, scoreOut, ruleIn, ruleOut>>
cacheVars == <<file_cache, module_cache, stats, cache_calls, _baseline_cache>>
projectVars == <<project, project_path, active_requirements, rules, modules_left,
                 report_modules, evidence_modules>>
runVars == <<pc, projects_left, report_projects, evidence_projects, written, exit_code,
             exception>>
diskVars == <<fs, remote, git>>
gitLog == <<git_call, git_count>>
raceVars == <<cache_dir, procs>>

vars == <<pureVars, gitLog, raceVars, config_dir, config, diskVars, cacheVars, projectVars, runVars>>

\* ------------------------------------------------------------------ helpers

None == <<>>
Some(x) == <<x>>

Range(s) == {s[i] : i \in DOMAIN s}

\* dict.get(k, default)
DictGet(d, k, default) == IF k \in DOMAIN d THEN d[k] ELSE default

Max(a, b) == IF a >= b THEN a ELSE b

RECURSIVE Concat(_)
\* "".join(parts), parts a sequence of sequences
Concat(parts) ==
    IF parts = <<>> THEN <<>> ELSE Head(parts) \o Concat(Tail(parts))

RECURSIVE SetToSortedSeq(_)
\* sorted(S) for a set of naturals
SetToSortedSeq(S) ==
    IF S = {} THEN <<>>
    ELSE LET m == CHOOSE x \in S : \A y \in S : x <= y
         IN <<m>> \o SetToSortedSeq(S \ {m})

\* ------------------------------------------------------------ normalization

Whitespace == {" ", "\n"}

RECURSIVE StripBlockComments(_)
\* _COMMENT_BLOCK_RE.sub(" ", text): "/*" up to the nearest "*/" becomes one
\* space; a "/*" that is never closed stays.
StripBlockComments(t) ==
    IF t = <<>> THEN <<>>
    ELSE IF Head(t) = "/*" /\ \E j \in 2..Len(t) : t[j] = "*/"
         THEN LET j == CHOOSE j \in 2..Len(t) :
                          t[j] = "*/" /\ \A k \in 2..(j - 1) : t[k] # "*/"
              IN <<" ">> \o StripBlockComments(SubSeq(t, j + 1, Len(t)))
         ELSE <<Head(t)>> \o StripBlockComments(Tail(t))

RECURSIVE StripLineComments(_)
\* _COMMENT_LINE_RE.sub(" ", text): "//" up to the end of its line (the newline
\* stays) becomes one space.
StripLineComments(t) ==
    IF t = <<>> THEN <<>>
    ELSE IF Head(t) = "//"
         THEN LET rest == Tail(t)
                  n == IF \E j \in 1..Len(rest) : rest[j] = "\n"
                       THEN CHOOSE j \in 1..Len(rest) :
                                rest[j] = "\n" /\ \A k \in 1..(j - 1) : rest[k] # "\n"
                       ELSE Len(rest) + 1
              IN <<" ">> \o StripLineComments(SubSeq(rest, n, Len(rest)))
         ELSE <<Head(t)>> \o StripLineComments(Tail(t))

RECURSIVE CollapseWhitespace(_)
\* re.sub(r"\s+", " ", text)
CollapseWhitespace(t) ==
    IF t = <<>> THEN <<>>
    ELSE IF Head(t) \in Whitespace
         THEN IF Len(t) >= 2 /\ t[2] \in Whitespace
              THEN CollapseWhitespace(Tail(t))
              ELSE <<" ">> \o CollapseWhitespace(Tail(t))
         ELSE <<Head(t)>> \o CollapseWhitespace(Tail(t))

\* str.strip() of a text whose whitespace runs are already single spaces
Strip(t) ==
    LET a == IF t # <<>> /\ Head(t) \in Whitespace THEN Tail(t) ELSE t
    IN IF a # <<>> /\ a[Len(a)] \in Whitespace THEN SubSeq(a, 1, Len(a) - 1) ELSE a

normalize_content(text) ==
    Strip(CollapseWhitespace(StripLineComments(StripBlockComments(text))))

RECURSIVE Split(_)
\* str.split(): the maximal runs of non-whitespace symbols, each a token
Split(t) ==
    IF t = <<>> THEN <<>>
    ELSE IF Head(t) \in Whitespace THEN Split(Tail(t))
    ELSE LET n == IF \E j \in 1..Len(t) : t[j] \in Whitespace
                  THEN CHOOSE j \in 1..Len(t) :
                           t[j] \in Whitespace /\ \A k \in 1..(j - 1) : t[k] \notin Whitespace
                  ELSE Len(t) + 1
         IN <<SubSeq(t, 1, n - 1)>> \o Split(SubSeq(t, n, Len(t)))

\* ------------------------------------------------------------------ hashing

\* hashlib.sha256(x).hexdigest(), collision-free
sha256_hex(text) == <<"#">> \o text

\* The number of bits of a simhash.
SimBits == 64
\* The number of hex digits of a formatted simhash: f"{fingerprint:016x}".
HexWidth == 16

HexDigits == <<"0", "1", "2", "3", "4", "5", "6", "7",
               "8", "9", "a", "b", "c", "d", "e", "f">>

\* The value of one hex digit.
HexVal(c) == (CHOOSE i \in 1..16 : HexDigits[i] = c) - 1

\* The symbols of texts that are not hex digits, numbered after them.
OtherSymbols == <<" ", "\n", "//", "/*", "*/", "#">>

SymbolCode(c) ==
    IF \E i \in 1..16 : HexDigits[i] = c THEN HexVal(c)
    ELSE 15 + (CHOOSE i \in 1..Len(OtherSymbols) : OtherSymbols[i] = c)

RECURSIVE TokenSeed(_)
TokenSeed(token) ==
    IF token = <<>> THEN 7
    ELSE (TokenSeed(SubSeq(token, 1, Len(token) - 1)) * 31
          + SymbolCode(token[Len(token)]) + 1) % 65521

\* _token_hash(token): the first 64 bits of the token's SHA-256, as the set of
\* the positions of its 1 bits (bit 0 the least significant).  SHA-256 itself
\* is replaced by a fixed scrambling of the token's symbols.
_token_hash(token) ==
    LET s == TokenSeed(token)
    IN {i \in 0..(SimBits - 1) :
           ((((s + 1) * (i * i + i + 41)) \div 32) + (s \div (i + 1))) % 2 = 1}

\* f"{fingerprint:016x}" of the number whose 1 bits are at the positions in bits
FormatHex(bits) ==
    [k \in 1..HexWidth |->
        LET lo == 4 * (HexWidth - k)
            v == (IF lo \in bits THEN 1 ELSE 0) + (IF lo + 1 \in bits THEN 2 ELSE 0)
                 + (IF lo + 2 \in bits THEN 4 ELSE 0) + (IF lo + 3 \in bits THEN 8 ELSE 0)
        IN HexDigits[v + 1]]

\* int(a, 16), as the set of the positions of the 1 bits; a may have any length
ParseHex(a) ==
    {i \in 0..(4 * Len(a) - 1) :
        (HexVal(a[Len(a) - (i \div 4)]) \div (2 ^ (i % 4))) % 2 = 1}

\* simhash64(tokens)
simhash64(tokens) ==
    LET live == SelectSeq(tokens, LAMBDA t : t # <<>>)
        value == [k \in DOMAIN live |-> _token_hash(live[k])]
        ones(i) == Cardinality({k \in DOMAIN live : i \in value[k]})
        \* vector[i] = (+1 per token with bit i) + (-1 per token without)
        vector(i) == ones(i) - (Len(live) - ones(i))
    IN FormatHex({i \in 0..(SimBits - 1) : vector(i) >= 0})

\* hamming_distance counting the hex digits that differ, not the bits
hamming_distance_by_digit(a, b) ==
    Cardinality({k \in 1..HexWidth : a[Len(a) + 1 - k] # b[Len(b) + 1 - k]})

\* hamming_distance(a, b): bit_count(int(a, 16) ^ int(b, 16))
hamming_distance(a, b) ==
    LET x == ParseHex(a)
        y == ParseHex(b)
    IN Cardinality((x \ y) \cup (y \ x))

\* similarity_score(sha_a, sha_b, simhash_a, simhash_b), in 64ths:
\* max(0.0, 1.0 - distance / 64.0)
similarity_score(sha_a, sha_b, simhash_a, simhash_b) ==
    IF sha_a = sha_b THEN SimBits
    ELSE Max(0, SimBits - hamming_distance(simhash_a, simhash_b))

\* round(score, 4), in ten-thousandths: Python rounds the exact binary value,
\* and n/64 is exact, so a tie goes to the even digit.
Round4(score) ==
    LET q == (score * 10000) \div SimBits
        r == (score * 10000) % SimBits
    IN IF 2 * r > SimBits THEN q + 1
       ELSE IF 2 * r = SimBits THEN q + (q % 2)
       ELSE q

\* ---------------------------------------------------------------- the rules

\* The string "*" in when.projects.
Star == 0

\* if x: for a list that may be None or empty
Truthy(list) == list # <<>>

\* Analyzer._active_requirements(project_id): the ids of the first matrix
\* entry of the project whose must_have is set, in their declared order
_active_requirements(matrix, project_id) ==
    LET entries == SelectSeq(matrix, LAMBDA item : item.id = project_id)
    IN IF entries = <<>> THEN <<>>
       ELSE LET kept == SelectSeq(Head(entries).requires,
                                  LAMBDA req : DictGet(req, "must_have", FALSE))
            IN [i \in DOMAIN kept |-> kept[i].id]

\* the test of one rule with requires_all looked at only when the rule names
\* no projects
RuleAppliesEither(rule, project_id, requirements) ==
    LET projects == DictGet(rule.when, "projects", None)
        requires_all == DictGet(rule.when, "requires_all", None)
    IN IF Truthy(projects)
       THEN Star \in Range(projects) \/ project_id \in Range(projects)
       ELSE Truthy(requires_all) =>
                \A i \in DOMAIN requires_all : requires_all[i] \in Range(requirements)

\* The test of one rule in Analyzer._matching_rules
RuleApplies(rule, project_id, requirements) ==
    LET projects == DictGet(rule.when, "projects", None)
        requires_all == DictGet(rule.when, "requires_all", None)
    IN /\ (Truthy(projects) =>
              (Star \in Range(projects) \/ project_id \in Range(projects)))
       /\ (Truthy(requires_all) =>
              \A i \in DOMAIN requires_all : requires_all[i] \in Range(requirements))

RECURSIVE SortedAscending(_)
SortedAscending(matched) ==
    IF matched = <<>> THEN <<>>
    ELSE LET low == CHOOSE p \in {matched[i].priority : i \in DOMAIN matched} :
                        \A i \in DOMAIN matched : p <= matched[i].priority
         IN SelectSeq(matched, LAMBDA r : r.priority = low)
            \o SortedAscending(SelectSeq(matched, LAMBDA r : r.priority # low))

\* sorted(matched, key=...) followed by reverse(): rules of one priority end
\* in the reverse of their declaration order
SortedThenReversed(matched) ==
    LET up == SortedAscending(matched)
    IN [i \in DOMAIN up |-> up[Len(up) + 1 - i]]

RECURSIVE SortedByPriorityDesc(_)
\* sorted(matched, key=lambda r: r["priority"], reverse=True): Python's sort is
\* stable, also with reverse=True, so rules of one priority keep their order
SortedByPriorityDesc(matched) ==
    IF matched = <<>> THEN <<>>
    ELSE LET top == CHOOSE p \in {matched[i].priority : i \in DOMAIN matched} :
                        \A i \in DOMAIN matched : matched[i].priority <= p
         IN SelectSeq(matched, LAMBDA r : r.priority = top)
            \o SortedByPriorityDesc(SelectSeq(matched, LAMBDA r : r.priority # top))

\* Analyzer._matching_rules(project_id, requirements)
_matching_rules(declared, project_id, requirements) ==
    LET kept == SelectSeq(declared, LAMBDA rule : RuleApplies(rule, project_id, requirements))
        matched == [i \in DOMAIN kept |->
                       [rule_id |-> kept[i].id, priority |-> kept[i].priority,
                        expect |-> kept[i].expect]]
    IN SortedByPriorityDesc(matched)

\* Analyzer._select_expectation(rules, module_id)
_select_expectation(matched, module_id) ==
    LET named(rule) == SelectSeq(rule.expect, LAMBDA exp : exp.module = module_id)
        naming == SelectSeq(matched, LAMBDA rule : named(rule) # <<>>)
    IN IF naming = <<>> THEN None
       ELSE LET rule == Head(naming)
                exp == Head(named(rule))
            IN Some([rule_id |-> rule.rule_id,
                     expected_level |-> exp.expected_level,
                     target |-> exp.target])

\* ------------------------------------------------------------ classification

\* {"ok": 1.0, "warn": 0.0}
DefaultThresholds == [ok |-> 10000, warn |-> 0]

\* Analyzer._resolve_thresholds(expectation)
_resolve_thresholds(defaults, expectation) ==
    LET thresholds == DictGet(defaults, "thresholds", <<>>)
    IN DictGet(thresholds, expectation.expected_level, DefaultThresholds)

\* score >= threshold, the score in 64ths and the threshold in ten-thousandths
AtLeast(score, threshold) == score * 10000 >= threshold * SimBits

\* _classify_status comparing the score as reported, rounded to 4 digits
_classify_status_rounded(score, thresholds, target_type) ==
    LET ok_threshold == DictGet(thresholds, "ok", DefaultThresholds.ok)
        warn_threshold == DictGet(thresholds, "warn", DefaultThresholds.warn)
    IN IF Round4(score) >= ok_threshold
       THEN (IF target_type = "baseline" THEN "OK_BASELINE" ELSE "OK_EXPECTED")
       ELSE IF Round4(score) >= warn_threshold THEN "WARN"
       ELSE "DRIFT_UNEXPECTED"

\* _classify_status with a score that must exceed the ok threshold
_classify_status_above_ok(score, thresholds, target_type) ==
    LET ok_threshold == DictGet(thresholds, "ok", DefaultThresholds.ok)
        warn_threshold == DictGet(thresholds, "warn", DefaultThresholds.warn)
    IN IF score * 10000 > ok_threshold * SimBits
       THEN (IF target_type = "baseline" THEN "OK_BASELINE" ELSE "OK_EXPECTED")
       ELSE IF AtLeast(score, warn_threshold) THEN "WARN"
       ELSE "DRIFT_UNEXPECTED"

\* _classify_status without the test of the target type: a score at or above
\* the ok threshold is OK_EXPECTED
_classify_status_ok_expected(score, thresholds, target_type) ==
    LET ok_threshold == DictGet(thresholds, "ok", DefaultThresholds.ok)
        warn_threshold == DictGet(thresholds, "warn", DefaultThresholds.warn)
    IN IF AtLeast(score, ok_threshold) THEN "OK_EXPECTED"
       ELSE IF AtLeast(score, warn_threshold) THEN "WARN"
       ELSE "DRIFT_UNEXPECTED"

\* Analyzer._classify_status(score, thresholds, target_type)
_classify_status(score, thresholds, target_type) ==
    LET ok_threshold == DictGet(thresholds, "ok", DefaultThresholds.ok)
        warn_threshold == DictGet(thresholds, "warn", DefaultThresholds.warn)
    IN IF AtLeast(score, ok_threshold)
       THEN (IF target_type = "baseline" THEN "OK_BASELINE" ELSE "OK_EXPECTED")
       ELSE IF AtLeast(score, warn_threshold) THEN "WARN"
       ELSE "DRIFT_UNEXPECTED"

\* ------------------------------------------------------ configuration values

\* ExpectationTarget(type="baseline", baseline_id=...)
BaselineTarget(baseline_id) ==
    [type |-> "baseline", baseline_id |-> baseline_id, signature |-> None, sha256 |-> None]

\* ExpectationTarget(type="signature", signature=..., sha256=...)
SignatureTarget(signature, sha256) ==
    [type |-> "signature", baseline_id |-> None, signature |-> signature, sha256 |-> sha256]

\* Expectation(module, expected_level, target)
Expect(module, expected_level, target) ==
    [module |-> module, expected_level |-> expected_level, target |-> target]

\* ------------------------------------------------------------- file contents

\* The file contents of the examples.
TextAB == <<"a", " ", "b">>
\* "a b" again behind other spacing and comments
TextABc == <<"a", "\n", " ", "/*", "c", "*/", "b", " ", "//", "c">>
\* the tokens of "a b" in another order
TextBA == <<"b", " ", "a">>
TextAC == <<"a", " ", "c">>
TextC == <<"c">>
\* a file that is one comment
TextNone == <<"//", "a">>

\* The relative paths of the examples.
Paths == {1, 2, 3}

\* The trees of the examples: relative path -> text, for the files that exist.
TreeEmpty == <<>>
TreeBase == (1 :> TextAB) @@ (2 :> TextC) @@ (3 :> TextAC)
TreeSame == (1 :> TextABc) @@ (2 :> TextC) @@ (3 :> TextAC)
TreeSwap == (1 :> TextBA) @@ (2 :> TextC) @@ (3 :> TextNone)
TreeDrift == (1 :> TextAC) @@ (2 :> TextAB)
TreeLast == (3 :> TextC)

TreePool == {TreeEmpty, TreeBase, TreeSame, TreeSwap, TreeDrift, TreeLast}

Texts == UNION {Range(tree) : tree \in TreePool}

\* ----------------------------------------------------------------- the cache

\* d[k] = v
DictSet(d, k, v) == (k :> v) @@ d

\* d.get(k), None when k is missing
DictFind(d, k) == IF k \in DOMAIN d THEN Some(d[k]) ELSE None

\* CacheStats()
NoStats == [file_cache_hits |-> 0, file_cache_misses |-> 0,
            module_cache_hits |-> 0, module_cache_misses |-> 0]

\* A store is the cache as one value: [file_cache, module_cache, stats], with
\* calls, the calls of its methods so far: what was called, on which of the
\* two caches, the key, and the record returned (None for a miss) or written.
Called(store, op, cache, key, data) ==
    [store EXCEPT !.calls = Append(@, [op |-> op, cache |-> cache, key |-> key,
                                       data |-> data])]

\* CacheStore.get_file(key): the record or None, and the store with its counter moved
get_file(store, key) ==
    IF key \in DOMAIN store.file_cache
    THEN [value |-> Some(store.file_cache[key]),
          store |-> Called([store EXCEPT !.stats.file_cache_hits = @ + 1],
                           "get", "file", key, Some(store.file_cache[key]))]
    ELSE [value |-> None,
          store |-> Called([store EXCEPT !.stats.file_cache_misses = @ + 1],
                           "get", "file", key, None)]

\* CacheStore.set_file(key, data)
set_file(store, key, data) ==
    Called([store EXCEPT !.file_cache = DictSet(@, key, data)],
           "set", "file", key, Some(data))

\* get_module counting its hits and misses on the counters of the file cache
get_module_counted_as_file(store, key) ==
    IF key \in DOMAIN store.module_cache
    THEN [value |-> Some(store.module_cache[key]),
          store |-> Called([store EXCEPT !.stats.file_cache_hits = @ + 1],
                           "get", "module", key, Some(store.module_cache[key]))]
    ELSE [value |-> None,
          store |-> Called([store EXCEPT !.stats.file_cache_misses = @ + 1],
                           "get", "module", key, None)]

\* CacheStore.get_module(key)
get_module(store, key) ==
    IF key \in DOMAIN store.module_cache
    THEN [value |-> Some(store.module_cache[key]),
          store |-> Called([store EXCEPT !.stats.module_cache_hits = @ + 1],
                           "get", "module", key, Some(store.module_cache[key]))]
    ELSE [value |-> None,
          store |-> Called([store EXCEPT !.stats.module_cache_misses = @ + 1],
                           "get", "module", key, None)]

\* CacheStore.set_module(key, data)
set_module(store, key, data) ==
    Called([store EXCEPT !.module_cache = DictSet(@, key, data)],
           "set", "module", key, Some(data))

\* -------------------------------------------------------------- git sources

\* A git state is the cache directory's repos/ and worktrees/ as one value:
\* repos maps a repository key to the refs of its mirror (ref -> tree), and
\* worktrees is the set of directories under worktrees/: [key, dir, checkout],
\* where dir is the path below worktrees/<key> as its components and checkout
\* is None for a directory that mkdir made, or the ref and the tree that
\* "git worktree add" checked out there.  A ref is the sequence of the
\* components of its name: "release/1.0" is <<"release", "1.0">>.  A remote
\* maps a repository to its refs (ref -> tree).  The trees of the examples
\* hold no directories of their own.

\* checkout_git_source, lines 30-33, over a cache directory nothing was
\* checked out into
EmptyGit == [repos |-> <<>>, worktrees |-> {}]

\* _hash_repo(repo): the first 12 hex digits of the SHA-256, collision-free
_hash_repo(repo) == <<"#", repo>>

\* Path.exists() of worktrees/<key>/<dir>
WorktreeExists(g, key, dir) == \E w \in g.worktrees : w.key = key /\ w.dir = dir

\* checkout_git_source, line 40: worktrees_dir / repo_key / ref
WorktreeDir(key, ref) == [form |-> "worktree", key |-> key, dir |-> ref]

\* checkout_git_source, lines 34-39: the mirror is cloned when its directory
\* is missing and fetched otherwise; git fails (GitError) when the transport
\* does (net = FALSE) or the remote has no such repository, and a failed
\* clone leaves no directory.  A fetch without --prune keeps the refs the
\* remote no longer has.  ran lists the git commands run.
MirrorStep(g, remote_repos, repo, net) ==
    LET key == _hash_repo(repo)
        reached == net /\ repo \in DOMAIN remote_repos
    IN IF key \notin DOMAIN g.repos
       THEN [raised |-> ~reached, ran |-> <<"clone">>,
             git |-> IF reached
                     THEN [g EXCEPT !.repos = DictSet(@, key, remote_repos[repo])]
                     ELSE g]
       ELSE [raised |-> ~reached, ran |-> <<"fetch">>,
             git |-> IF reached
                     THEN [g EXCEPT !.repos = DictSet(@, key, remote_repos[repo] @@ @[key])]
                     ELSE g]

\* checkout_git_source, line 42: worktree_dir.parent.mkdir(parents=True,
\* exist_ok=True) makes every directory above worktrees/<key>/<ref> that is
\* not there
WithParents(g, key, ref) ==
    [g EXCEPT !.worktrees =
        @ \cup {[key |-> key, dir |-> SubSeq(ref, 1, n), checkout |-> None] :
                    n \in {m \in 1..(Len(ref) - 1) : ~WorktreeExists(g, key, SubSeq(ref, 1, m))}}]

\* checkout_git_source, lines 40-44, after the mirror step m: "git worktree
\* add -f" runs when the directory is missing, and fails (GitError) when the
\* mirror has no such ref
WorktreeStep(m, key, ref) ==
    IF m.raised
    THEN [raised |-> TRUE, path |-> None, git |-> m.git, ran |-> m.ran]
    ELSE IF WorktreeExists(m.git, key, ref)
    THEN [raised |-> FALSE, path |-> Some(WorktreeDir(key, ref)), git |-> m.git, ran |-> m.ran]
    ELSE IF ref \notin DOMAIN m.git.repos[key]
    THEN [raised |-> TRUE, path |-> None, git |-> WithParents(m.git, key, ref),
          ran |-> Append(m.ran, "worktree add")]
    ELSE [raised |-> FALSE, path |-> Some(WorktreeDir(key, ref)),
          git |-> [WithParents(m.git, key, ref) EXCEPT !.worktrees =
                      @ \cup {[key |-> key, dir |-> ref,
                               checkout |-> Some([ref |-> ref,
                                                  tree |-> m.git.repos[key][ref]])]}],
          ran |-> Append(m.ran, "worktree add")]

\* checkout_git_source(repo, ref, cache_dir) in the git state g, with the
\* remote repositories and the transport as they are during the call: whether
\* it raised GitError, the path returned, the git state after it and the git
\* commands it ran
checkout_git_source(repo, ref, g, remote_repos, net) ==
    WorktreeStep(MirrorStep(g, remote_repos, repo, net), _hash_repo(repo), ref)

\* ------------------------------------------------------------------- paths

\* A path of a configuration is [form, root]: the directory it names (a root
\* of the file system) written as an absolute path or as a path relative to
\* the working directory.
AbsolutePath(root) == [form |-> "absolute", root |-> root]
RelativePath(root) == [form |-> "relative", root |-> root]

\* Path(path).expanduser().resolve(): the absolute path of the directory
ResolvePath(path) == AbsolutePath(path.root)

\* What is on disk is [fs, git].  The tree under a resolved path: a worktree
\* directory that mkdir made holds no file of its own.
TreeAt(disk, path) ==
    IF path.form = "worktree"
    THEN LET w == CHOOSE w \in disk.git.worktrees : w.key = path.key /\ w.dir = path.dir
         IN IF w.checkout = None THEN TreeEmpty ELSE w.checkout[1].tree
    ELSE disk.fs[path.root]

\* -------------------------------------------------------------- the analyzer

\* Analyzer._fingerprint_file, lines 284-287: the fingerprint computed from a text
ComputeFileFingerprint(text) ==
    LET normalized == normalize_content(text)
    IN [sha256_normalized |-> sha256_hex(normalized),
        simhash64 |-> simhash64(Split(normalized))]

\* ComputeFileFingerprint of every text of the examples, evaluated once.
FileFingerprintTable == [text \in Texts |-> ComputeFileFingerprint(text)] @@ <<>>

\* The token lists a module of the examples can have: the simhash values of at
\* most as many files as there are paths.
TokenLists ==
    LET sims == {FileFingerprintTable[text].simhash64 : text \in Texts}
    IN UNION {[1..k -> sims] : k \in 0..Cardinality(Paths)}

\* simhash64(tokens) of every token list of the examples, evaluated once.
ModuleSimhashTable == [tokens \in TokenLists |-> simhash64(tokens)] @@ <<>>

\* The name of a relative path, as a string.
PathName(relative_path) == <<"/", HexDigits[relative_path + 1]>>

\* FileFromCache writing the record also when get_file returned one
FileFromCacheRewritten(cached, raw_hash, text) ==
    [fp |-> IF cached.value # None
            THEN Some([sha256_normalized |-> cached.value[1].sha256_normalized,
                       simhash64 |-> cached.value[1].simhash64])
            ELSE Some(FileFingerprintTable[text]),
     store |-> set_file(cached.store, raw_hash, FileFingerprintTable[text])]

\* Analyzer._fingerprint_file, lines 279-289: the fingerprint of a text given
\* what get_file(raw_hash) returned, and the store after it
FileFromCache(cached, raw_hash, text) ==
    IF cached.value # None
    THEN [fp |-> Some([sha256_normalized |-> cached.value[1].sha256_normalized,
                       simhash64 |-> cached.value[1].simhash64]),
          store |-> cached.store]
    ELSE [fp |-> Some(FileFingerprintTable[text]),
          store |-> set_file(cached.store, raw_hash, FileFingerprintTable[text])]

\* _fingerprint_file with the cache entry keyed by the file's path, not its text
_fingerprint_file_keyed_by_path(store, tree, relative_path) ==
    IF relative_path \notin DOMAIN tree THEN [fp |-> None, store |-> store]
    ELSE FileFromCache(get_file(store, sha256_hex(PathName(relative_path))),
                       sha256_hex(PathName(relative_path)), tree[relative_path])

\* Analyzer._fingerprint_file(project_path, relative_path), the tree being the
\* files under project_path: the fingerprint or None, and the store after it
_fingerprint_file(store, tree, relative_path) ==
    IF relative_path \notin DOMAIN tree THEN [fp |-> None, store |-> store]
    ELSE FileFromCache(get_file(store, sha256_hex(tree[relative_path])),
                       sha256_hex(tree[relative_path]), tree[relative_path])

\* Analyzer._fingerprint_module, lines 247-255: one file joins file_evidence
\* unless it has no fingerprint
FileStep(acc, file_path, file) ==
    [evidence |-> IF file.fp = None THEN acc.evidence
                  ELSE Append(acc.evidence,
                              [path |-> file_path,
                               sha256_normalized |-> file.fp[1].sha256_normalized,
                               simhash64 |-> file.fp[1].simhash64]),
     store |-> file.store]

RECURSIVE FingerprintFiles(_, _, _)
\* The loop of Analyzer._fingerprint_module over module_files, from
\* acc = [evidence, store]: file_evidence, and the store after it
FingerprintFiles(acc, tree, module_files) ==
    IF module_files = <<>> THEN acc
    ELSE FingerprintFiles(
             FileStep(acc, Head(module_files),
                      _fingerprint_file(acc.store, tree, Head(module_files))),
             tree, Tail(module_files))

\* module_hasher over the files' sha256_normalized, in the order of the files
ModuleSha(evidence) ==
    sha256_hex(Concat([i \in DOMAIN evidence |-> evidence[i].sha256_normalized]))

\* Analyzer._fingerprint_module, lines 258-270: the module fingerprint given
\* what get_module(module_sha) returned
ModuleFromCache(evidence, module_sha, cached) ==
    IF cached.value # None
    THEN [fp |-> Some([sha256_normalized |-> cached.value[1].sha256_normalized,
                       simhash64 |-> cached.value[1].simhash64]),
          evidence |-> evidence, store |-> cached.store]
    ELSE LET tokens == [i \in DOMAIN evidence |-> evidence[i].simhash64]
             module_fp == [sha256_normalized |-> module_sha,
                           simhash64 |-> ModuleSimhashTable[tokens]]
         IN [fp |-> Some(module_fp), evidence |-> evidence,
             store |-> set_module(cached.store, module_sha, module_fp)]

\* Analyzer._fingerprint_module, lines 256-257, after the loop over the files
ModuleFromFiles(files) ==
    ModuleFromCache(files.evidence, ModuleSha(files.evidence),
                    get_module(files.store, ModuleSha(files.evidence)))

\* Analyzer._fingerprint_module(project_path, module_files): the module
\* fingerprint or None, the file evidence, and the store after it
_fingerprint_module(store, tree, module_files) ==
    IF module_files = <<>> THEN [fp |-> None, evidence |-> <<>>, store |-> store]
    ELSE ModuleFromFiles(FingerprintFiles([evidence |-> <<>>, store |-> store],
                                          tree, module_files))

\* _resolve_module_files with the critical files of the module that exist
\* added to its files
_resolve_module_files_and_critical(tree, module) ==
    LET glob(pattern) == {path \in DOMAIN tree : path \in pattern}
        included == UNION {glob(module.include[i]) : i \in DOMAIN module.include}
        excluded == UNION {glob(module.exclude[i]) : i \in DOMAIN module.exclude}
    IN SetToSortedSeq((included \ excluded)
                      \cup (Range(module.critical_files) \cap DOMAIN tree))

\* Analyzer._resolve_module_files(project_path, module): a glob pattern is the
\* set of the relative paths it matches
_resolve_module_files(tree, module) ==
    LET glob(pattern) == {path \in DOMAIN tree : path \in pattern}
        included == UNION {glob(module.include[i]) : i \in DOMAIN module.include}
        excluded == UNION {glob(module.exclude[i]) : i \in DOMAIN module.exclude}
    IN SetToSortedSeq(included \ excluded)

\* What a run reads is trees = [fs, git, remote, net]: the file system, the
\* git state of the cache directory, the remote repositories, and whether the
\* transport works.

\* The two resolvers, lines 215-223 and 372-380: whether the call raised and
\* what (ValueError or GitError), the path returned, and the git state after it
ResolveSource(trees, source) ==
    IF source.type = "git"
    THEN IF source.snapshot = None
         THEN [raised |-> TRUE, error |-> "ValueError", path |-> None, git |-> trees.git]
         ELSE LET r == checkout_git_source(source.repo, source.snapshot[1].ref,
                                           trees.git, trees.remote, trees.net)
              IN [raised |-> r.raised, error |-> IF r.raised THEN "GitError" ELSE "",
                  path |-> r.path, git |-> r.git]
    ELSE [raised |-> FALSE, error |-> "", path |-> Some(ResolvePath(source.path)),
          git |-> trees.git]

\* Analyzer._resolve_project_path(project)
_resolve_project_path(trees, p) == ResolveSource(trees, p.source)

\* Analyzer._resolve_baseline_path(baseline)
_resolve_baseline_path(trees, baseline) == ResolveSource(trees, baseline.source)

\* Analyzer._baseline_module_fingerprint, lines 366-367
BaselineStep(acc, mod_id, fingerprinted) ==
    [module_fps |-> IF fingerprinted.fp = None THEN acc.module_fps
                    ELSE DictSet(acc.module_fps, mod_id, fingerprinted.fp[1]),
     store |-> fingerprinted.store]

RECURSIVE BaselineModules(_, _, _)
\* The loop of Analyzer._baseline_module_fingerprint over config.modules, from
\* acc = [module_fps, store]: module_fps, and the store after it
BaselineModules(acc, tree, mods) ==
    IF mods = <<>> THEN acc
    ELSE BaselineModules(
             BaselineStep(acc, Head(mods).id,
                          _fingerprint_module(acc.store, tree,
                                              _resolve_module_files(tree, Head(mods)))),
             tree, Tail(mods))

\* Analyzer._baseline_module_fingerprint, lines 368-369
BaselineMemoized(memo, baseline_id, module, all, g) ==
    [raised |-> FALSE, error |-> "", fp |-> DictFind(all.module_fps, module.id),
     store |-> all.store, memo |-> DictSet(memo, baseline_id, all.module_fps), git |-> g]

\* Analyzer._baseline_module_fingerprint, lines 362-369, given what
\* _resolve_baseline_path returned
BaselineResolved(cfg, trees, store, memo, baseline_id, module, resolved) ==
    IF resolved.raised
    THEN [raised |-> TRUE, error |-> resolved.error, fp |-> None,
          store |-> store, memo |-> memo, git |-> resolved.git]
    ELSE BaselineMemoized(memo, baseline_id, module,
             BaselineModules([module_fps |-> <<>>, store |-> store],
                             TreeAt([trees EXCEPT !.git = resolved.git], resolved.path[1]),
                             cfg.modules),
             resolved.git)

\* _baseline_module_fingerprint with a baseline id that is not configured
\* treated as a baseline without a fingerprint for the module
_baseline_module_fingerprint_or_absent(cfg, trees, store, memo, baseline_id, module) ==
    IF baseline_id \in DOMAIN memo
    THEN [raised |-> FALSE, error |-> "", fp |-> DictFind(memo[baseline_id], module.id),
          store |-> store, memo |-> memo, git |-> trees.git]
    ELSE IF \A i \in DOMAIN cfg.baselines : cfg.baselines[i].id # baseline_id
    THEN [raised |-> FALSE, error |-> "", fp |-> None, store |-> store, memo |-> memo,
          git |-> trees.git]
    ELSE LET baseline == Head(SelectSeq(cfg.baselines, LAMBDA b : b.id = baseline_id))
         IN BaselineResolved(cfg, trees, store, memo, baseline_id, module,
                             _resolve_baseline_path(trees, baseline))

\* _baseline_module_fingerprint without the test of lines 359-360: the
\* baseline is resolved and fingerprinted at every lookup
_baseline_module_fingerprint_every_time(cfg, trees, store, memo, baseline_id, module) ==
    IF \A i \in DOMAIN cfg.baselines : cfg.baselines[i].id # baseline_id
    THEN [raised |-> TRUE, error |-> "ValueError", fp |-> None, store |-> store,
          memo |-> memo, git |-> trees.git]
    ELSE LET baseline == Head(SelectSeq(cfg.baselines, LAMBDA b : b.id = baseline_id))
         IN BaselineResolved(cfg, trees, store, memo, baseline_id, module,
                             _resolve_baseline_path(trees, baseline))

\* Analyzer._baseline_module_fingerprint(baseline_id, module): whether it
\* raised, the fingerprint or None, the store and the memo after it
_baseline_module_fingerprint(cfg, trees, store, memo, baseline_id, module) ==
    IF baseline_id \in DOMAIN memo
    THEN [raised |-> FALSE, error |-> "", fp |-> DictFind(memo[baseline_id], module.id),
          store |-> store, memo |-> memo, git |-> trees.git]
    ELSE IF \A i \in DOMAIN cfg.baselines : cfg.baselines[i].id # baseline_id
    THEN [raised |-> TRUE, error |-> "ValueError", fp |-> None, store |-> store,
          memo |-> memo, git |-> trees.git]
    ELSE LET baseline == Head(SelectSeq(cfg.baselines, LAMBDA b : b.id = baseline_id))
         IN BaselineResolved(cfg, trees, store, memo, baseline_id, module,
                             _resolve_baseline_path(trees, baseline))

\* Analyzer._resolve_target_fingerprint(expectation, module)
_resolve_target_fingerprint(cfg, trees, store, memo, expectation, module) ==
    LET target == expectation.target
        absent == [raised |-> FALSE, error |-> "", fp |-> None, store |-> store,
                   memo |-> memo, git |-> trees.git]
    IN IF target.type = "baseline"
       THEN IF target.baseline_id = None THEN absent
            ELSE _baseline_module_fingerprint(cfg, trees, store, memo,
                                              target.baseline_id[1], module)
       ELSE IF target.type = "signature"
       THEN IF target.signature = None \/ target.sha256 = None THEN absent
            ELSE [raised |-> FALSE, error |-> "",
                  fp |-> Some([sha256_normalized |-> target.sha256[1],
                               simhash64 |-> target.signature[1]]),
                  store |-> store, memo |-> memo, git |-> trees.git]
       ELSE absent

\* the two early exits of the loop of _analyze_project, with the expectation
\* looked at before the files
EarlyStatusByExpectation(module_files, expectation) ==
    IF expectation = None THEN Some("UNMAPPED")
    ELSE IF module_files = <<>> THEN Some("MISSING")
    ELSE None

\* Analyzer._analyze_project, lines 129-156: the status of a module decided
\* before its target is resolved, or None
EarlyStatus(module_files, expectation) ==
    IF module_files = <<>> THEN Some("MISSING")
    ELSE IF expectation = None THEN Some("UNMAPPED")
    ELSE None

\* A row of report_modules; the title is left out.
ReportRow(module, status, score, expectation) ==
    [module_id |-> module.id,
     status |-> status,
     score |-> score,
     expected_rule_id |-> IF expectation = None THEN None ELSE Some(expectation[1].rule_id),
     expected_level |-> IF expectation = None THEN None
                        ELSE Some(expectation[1].expected_level),
     target |-> IF expectation = None THEN None ELSE Some(expectation[1].target)]

\* Analyzer._analyze_project, lines 118-126
ModuleEvidence(module, module_files, own) ==
    [module_id |-> module.id,
     files |-> own.evidence,
     module_fingerprint |-> own.fp,
     critical_files |-> module.critical_files,
     missing_critical_files |->
         SelectSeq(module.critical_files, LAMBDA path : path \notin Range(module_files))]

\* Analyzer._analyze_project, lines 173-191: the row of a module that is scored
ScoredRow(cfg, module, expectation, own_fp, target_fp) ==
    LET score == similarity_score(own_fp.sha256_normalized, target_fp.sha256_normalized,
                                  own_fp.simhash64, target_fp.simhash64)
        thresholds == _resolve_thresholds(cfg.expectations.defaults, expectation[1])
        status == _classify_status(score, thresholds, expectation[1].target.type)
    IN ReportRow(module, status, Some(Round4(score)), expectation)

\* Analyzer._analyze_project, lines 159-191, given what
\* _resolve_target_fingerprint returned
AnalyzeResolved(cfg, module, expectation, own, evidence, target) ==
    IF target.raised
    THEN [raised |-> TRUE, error |-> target.error, row |-> None, evidence |-> evidence,
          store |-> target.store, memo |-> target.memo, git |-> target.git]
    ELSE [raised |-> FALSE, error |-> "",
          row |-> IF target.fp = None \/ own.fp = None
                  THEN Some(ReportRow(module, "MISSING", None, expectation))
                  ELSE Some(ScoredRow(cfg, module, expectation, own.fp[1], target.fp[1])),
          evidence |-> evidence, store |-> target.store, memo |-> target.memo,
          git |-> target.git]

\* Analyzer._analyze_project, lines 118-158, given the module's files, its
\* fingerprint and its expectation
AnalyzeFingerprinted(cfg, trees, memo, module, module_files, own, expectation) ==
    IF EarlyStatus(module_files, expectation) # None
    THEN [raised |-> FALSE, error |-> "",
          row |-> Some(ReportRow(module, EarlyStatus(module_files, expectation)[1],
                                 None, None)),
          evidence |-> ModuleEvidence(module, module_files, own),
          store |-> own.store, memo |-> memo, git |-> trees.git]
    ELSE AnalyzeResolved(cfg, module, expectation, own,
                         ModuleEvidence(module, module_files, own),
                         _resolve_target_fingerprint(cfg, trees, own.store, memo,
                                                     expectation[1], module))

\* Analyzer._analyze_project, lines 114-191, one pass of the loop over the
\* modules: whether it raised and what, the report row, the evidence, the
\* store, the memo and the git state after it
_analyze_module(cfg, trees, store, memo, root_path, matched, module) ==
    AnalyzeFingerprinted(cfg, trees, memo, module,
                         _resolve_module_files(TreeAt(trees, root_path), module),
                         _fingerprint_module(store, TreeAt(trees, root_path),
                             _resolve_module_files(TreeAt(trees, root_path), module)),
                         _select_expectation(matched, module.id))

\* the items left in the order of their declaration
DeclarationOrder(items) == items

RECURSIVE SortedById(_)
\* sorted(items, key=lambda x: x.id): stable, ascending
SortedById(items) ==
    IF items = <<>> THEN <<>>
    ELSE LET low == CHOOSE id \in {items[i].id : i \in DOMAIN items} :
                        \A i \in DOMAIN items : id <= items[i].id
         IN SelectSeq(items, LAMBDA x : x.id = low)
            \o SortedById(SelectSeq(items, LAMBDA x : x.id # low))

\* _build_actions keeping only the rows whose status is WARN
_build_actions_warn_only(projects) ==
    LET of(p) == LET kept == SelectSeq(p.modules, LAMBDA module : module.status = "WARN")
                 IN [i \in DOMAIN kept |->
                        [project_id |-> p.id, module_id |-> kept[i].module_id,
                         status |-> kept[i].status]]
    IN Concat([i \in DOMAIN projects |-> of(projects[i])])

\* Analyzer._build_actions(report_projects); every entry carries the same
\* fixed message, left out
_build_actions(projects) ==
    LET of(p) == LET kept == SelectSeq(p.modules, LAMBDA module :
                                 module.status \in {"WARN", "DRIFT_UNEXPECTED"})
                 IN [i \in DOMAIN kept |->
                        [project_id |-> p.id, module_id |-> kept[i].module_id,
                         status |-> kept[i].status]]
    IN Concat([i \in DOMAIN projects |-> of(projects[i])])

\* ------------------------------------------------------------ the run's inputs

\* CacheStore over an empty cache directory
EmptyStore == [file_cache |-> <<>>, module_cache |-> <<>>, stats |-> NoStats, calls |-> <<>>]

\* modules.yml of the examples: a glob pattern is the set of paths it matches
Module1 == [id |-> 1, include |-> <<{1, 2}>>, exclude |-> <<>>, critical_files |-> <<1, 3>>]
Module2 == [id |-> 2, include |-> <<{2, 3}, {3}>>, exclude |-> <<{2}>>, critical_files |-> <<>>]

ModulesPool == {<<Module1, Module2>>, <<Module2, Module1>>}

\* The remote repositories of the examples: repository 1 with two tags.
RemoteRepos == (1 :> (<<"v1">> :> TreeSame @@ <<"v2">> :> TreeBase))

\* projects.yml of the examples: project 1 lives under root 1, given as an
\* absolute path, project 2 under root 2, given relative to the working
\* directory; in another configuration project 2 is tag v1 of repository 1
Project1 == [id |-> 1, source |-> [type |-> "fs", path |-> AbsolutePath(1)]]
Project2 == [id |-> 2, source |-> [type |-> "fs", path |-> RelativePath(2)]]
ProjectGit == [id |-> 2, source |-> [type |-> "git", repo |-> 1,
                                     snapshot |-> Some([type |-> "tag", ref |-> <<"v1">>])]]

ProjectsPool == {<<Project1, Project2>>, <<Project2, Project1>>, <<ProjectGit, Project1>>}

\* baselines.yml of the examples: baseline 1 lives under root 3 and baseline 3
\* is tag v2 of repository 1; there is no baseline 2
Baselines ==
    <<[id |-> 1, source |-> [type |-> "fs", path |-> AbsolutePath(3)]],
      [id |-> 3, source |-> [type |-> "git", repo |-> 1,
                             snapshot |-> Some([type |-> "tag", ref |-> <<"v2">>])]]>>

\* The file systems of the examples: root -> tree.
FsPool ==
    { <<TreeSame, TreeDrift, TreeBase>>,
      <<TreeSwap, TreeEmpty, TreeBase>>,
      <<TreeBase, TreeLast, TreeLast>>,
      <<TreeDrift, TreeSame, TreeBase>> }

\* The fingerprint of a module in a tree, computed with an empty cache.
ModuleFingerprintOf(tree, module) ==
    _fingerprint_module(EmptyStore, tree, _resolve_module_files(tree, module)).fp[1]

\* A simhash with its n lowest bits flipped.
FlipLow(hex, n) ==
    LET bits == ParseHex(hex)
        low == 0..(n - 1)
    IN FormatHex((bits \ low) \cup (low \ bits))

Rule(id, priority, when, expect) ==
    [id |-> id, priority |-> priority, when |-> when, expect |-> expect]

\* every module against baseline 1
RulesBaseline ==
    <<Rule(1, 1, <<>>, <<Expect(1, "strict", BaselineTarget(Some(1))),
                        Expect(2, "loose", BaselineTarget(Some(1)))>>)>>

\* signatures 10 and 40 bits from module 1 of TreeBase, and module 2 of TreeBase itself
RulesSignature ==
    LET one == ModuleFingerprintOf(TreeBase, Module1)
        two == ModuleFingerprintOf(TreeBase, Module2)
    IN <<Rule(1, 1, [projects |-> <<1>>],
              <<Expect(1, "strict", SignatureTarget(Some(FlipLow(one.simhash64, 10)),
                                                    Some(sha256_hex(<<"b">>)))),
                Expect(2, "loose", SignatureTarget(Some(two.simhash64),
                                                   Some(two.sha256_normalized)))>>),
         Rule(2, 0, <<>>,
              <<Expect(1, "strict", SignatureTarget(Some(FlipLow(one.simhash64, 40)),
                                                    Some(sha256_hex(<<"b">>))))>>)>>

\* project 2 overrides module 1 with a baseline that is not configured
RulesUnknownForProject ==
    RulesBaseline
    \o <<Rule(2, 5, [projects |-> <<2>>], <<Expect(1, "strict", BaselineTarget(Some(2)))>>)>>

\* targets that resolve to nothing: an unknown type, a baseline without an id,
\* a signature without its simhash
RulesUnresolvable ==
    <<Rule(1, 1, [requires_all |-> <<1>>],
           <<Expect(1, "strict", [type |-> "other", baseline_id |-> Some(1),
                                  signature |-> None, sha256 |-> None]),
             Expect(2, "loose", BaselineTarget(None))>>),
      Rule(2, 0, [projects |-> <<Star>>],
           <<Expect(1, "loose", SignatureTarget(None, Some(sha256_hex(TextAB)))),
             Expect(2, "strict", BaselineTarget(Some(1)))>>)>>

\* module 2 against a baseline that is not configured
RulesUnknownForModule ==
    <<Rule(1, 1, <<>>, <<Expect(2, "strict", BaselineTarget(Some(2))),
                        Expect(1, "strict", BaselineTarget(Some(1)))>>)>>

\* every module against baseline 3, a git source
RulesGitBaseline ==
    <<Rule(1, 1, <<>>, <<Expect(1, "strict", BaselineTarget(Some(3))),
                        Expect(2, "loose", BaselineTarget(Some(3)))>>)>>

\* expectations.yml rules of the examples
RuleListPool ==
    {<<>>, RulesBaseline, RulesSignature, RulesUnknownForProject, RulesUnresolvable,
     RulesUnknownForModule, RulesGitBaseline}

\* expectations.yml defaults of the examples; thresholds in ten-thousandths
RunDefaultsPool ==
    { <<>>,
      [thresholds |-> [strict |-> [ok |-> 9500, warn |-> 5000], loose |-> [ok |-> 5000]]],
      [thresholds |-> [strict |-> [ok |-> 15000, warn |-> 10000]]] }

\* matrix.yml of the examples
RunMatrixPool ==
    { <<>>,
      <<[id |-> 1, requires |-> <<[id |-> 2, must_have |-> TRUE],
                                  [id |-> 1, must_have |-> TRUE],
                                  [id |-> 3]>>]>>,
      <<[id |-> 1, requires |-> <<[id |-> 2, must_have |-> TRUE],
                                  [id |-> 1, must_have |-> FALSE],
                                  [id |-> 2, must_have |-> TRUE]>>]>> }

\* The ConfigBundle values of the examples.
ConfigPool ==
    [projects : ProjectsPool, modules : ModulesPool, baselines : {Baselines},
     matrix : RunMatrixPool,
     expectations : [defaults : RunDefaultsPool, rules : RuleListPool]]

\* -------------------------------------------------- the configuration files

\* What yaml.safe_load gives is a node [kind, data]: a mapping, whose data is a
\* function from its keys, a list, whose data is a sequence, or a scalar.  A
\* file of the configuration directory is [file |-> "missing"], [file |->
\* "unparsable"] (its text is not YAML), or [file |-> "yaml", node |-> ...].
\* A result is [error, value]: error is "" or the exception raised.
Mapping(d) == [kind |-> "mapping", data |-> d]
List(items) == [kind |-> "list", data |-> items]
YamlFile(node) == [file |-> "yaml", node |-> node]

\* str(x.get(key)): the string "None", written none, when the key is missing
Str(d, key, none) == IF key \in DOMAIN d THEN d[key] ELSE none

\* _read_yaml(path); yaml.safe_load raises yaml.YAMLError, which is no
\* ConfigError
_read_yaml(f) ==
    IF f.file = "missing" THEN [error |-> "ConfigError", value |-> None]
    ELSE IF f.file = "unparsable" THEN [error |-> "YAMLError", value |-> None]
    ELSE IF f.node.kind # "mapping" THEN [error |-> "ConfigError", value |-> None]
    ELSE IF DictFind(f.node.data, "version") # Some(1)
    THEN [error |-> "ConfigError", value |-> None]
    ELSE [error |-> "", value |-> f.node.data]

\* _parse_snapshot(snapshot)
_parse_snapshot(node) ==
    IF node.kind # "mapping" THEN [error |-> "ConfigError", value |-> None]
    ELSE [error |-> "",
          value |-> [type |-> Str(node.data, "type", "None"),
                     ref |-> Str(node.data, "ref", <<"None">>)]]

\* _parse_source(source)
_parse_source(node) ==
    IF node.kind # "mapping" THEN [error |-> "ConfigError", value |-> None]
    ELSE IF DictFind(node.data, "type") = Some("git")
    THEN IF _parse_snapshot(DictGet(node.data, "snapshot", Mapping(<<>>))).error # ""
            \/ DictFind(node.data, "repo") = None
         THEN [error |-> "ConfigError", value |-> None]
         ELSE [error |-> "",
               value |-> [type |-> "git", repo |-> node.data.repo,
                          snapshot |-> Some(_parse_snapshot(
                              DictGet(node.data, "snapshot", Mapping(<<>>))).value)]]
    ELSE IF DictFind(node.data, "type") = Some("fs")
    THEN IF DictFind(node.data, "path") = None
         THEN [error |-> "ConfigError", value |-> None]
         ELSE [error |-> "", value |-> [type |-> "fs", path |-> node.data.path]]
    ELSE [error |-> "ConfigError", value |-> None]

\* The test every _parse_* starts with: data.get(key) is a list, and each of
\* its items a mapping; the value is the list of the items' mappings
ParseItems(data, key) ==
    IF key \notin DOMAIN data THEN [error |-> "ConfigError", value |-> None]
    ELSE IF data[key].kind # "list" THEN [error |-> "ConfigError", value |-> None]
    ELSE IF \E i \in DOMAIN data[key].data : data[key].data[i].kind # "mapping"
    THEN [error |-> "ConfigError", value |-> None]
    ELSE [error |-> "", value |-> [i \in DOMAIN data[key].data |-> data[key].data[i].data]]

\* _parse_projects(data) and _parse_baselines(data), given the items under
\* their key; the title is left out
ParseSourced(got) ==
    IF got.error # "" THEN got
    ELSE IF \E i \in DOMAIN got.value :
               _parse_source(DictGet(got.value[i], "source", Mapping(<<>>))).error # ""
    THEN [error |-> "ConfigError", value |-> None]
    ELSE [error |-> "",
          value |-> [i \in DOMAIN got.value |->
                        [id |-> Str(got.value[i], "id", -1),
                         source |-> _parse_source(got.value[i].source).value]]]

_parse_projects(data) == ParseSourced(ParseItems(data, "projects"))

_parse_baselines(data) == ParseSourced(ParseItems(data, "baselines"))

\* _parse_modules(data); title and language are left out
_parse_modules(data) ==
    LET got == ParseItems(data, "modules")
    IN IF got.error # "" THEN got
       ELSE [error |-> "",
             value |-> [i \in DOMAIN got.value |->
                           [id |-> Str(got.value[i], "id", -1),
                            include |-> DictGet(got.value[i], "include", <<>>),
                            exclude |-> DictGet(got.value[i], "exclude", <<>>),
                            critical_files |->
                                DictGet(got.value[i], "critical_files", <<>>)]]]

\* _parse_matrix(data)
_parse_matrix(data) ==
    LET got == ParseItems(data, "projects")
    IN IF got.error # "" THEN got
       ELSE [error |-> "",
             value |-> [i \in DOMAIN got.value |->
                           [id |-> Str(got.value[i], "id", -1),
                            requires |-> DictGet(got.value[i], "requires", <<>>)]]]

\* _parse_expectations, lines 257-272: one entry of a rule's expect list; the
\* type of the target is taken as it is written
ParseExpectation(exp) ==
    [module |-> Str(exp, "module", -1),
     expected_level |-> Str(exp, "expected_level", "None"),
     target |-> LET target == DictGet(exp, "target", Mapping(<<>>)).data
                IN [type |-> Str(target, "type", "None"),
                    baseline_id |-> DictFind(target, "baseline_id"),
                    signature |-> DictFind(target, "signature"),
                    sha256 |-> DictFind(target, "sha256")]]

\* _parse_expectations(data)
_parse_expectations(data) ==
    LET got == ParseItems(data, "rules")
        expect(item) == DictGet(item, "expect", <<>>)
    IN IF DictGet(data, "defaults", Mapping(<<>>)).kind # "mapping"
       THEN [error |-> "ConfigError", value |-> None]
       ELSE IF got.error # "" THEN got
       ELSE IF \E i \in DOMAIN got.value : \E k \in DOMAIN expect(got.value[i]) :
                  DictGet(expect(got.value[i])[k], "target", Mapping(<<>>)).kind # "mapping"
       THEN [error |-> "ConfigError", value |-> None]
       ELSE [error |-> "",
             value |-> [defaults |-> DictGet(data, "defaults", Mapping(<<>>)).data,
                        rules |-> [i \in DOMAIN got.value |->
                            [id |-> Str(got.value[i], "id", -1),
                             priority |-> DictGet(got.value[i], "priority", 0),
                             when |-> DictGet(got.value[i], "when", <<>>),
                             expect |-> [k \in DOMAIN expect(got.value[i]) |->
                                 ParseExpectation(expect(got.value[i])[k])]]]]]

\* load_config_bundle, lines 294-301, given the six documents read
ParseBundle(read) ==
    LET parsed == [projects |-> _parse_projects(read.projects.value),
                   modules |-> _parse_modules(read.modules.value),
                   baselines |-> _parse_baselines(read.baselines.value),
                   requirements |-> ParseItems(read.requirements.value, "requirements"),
                   matrix |-> _parse_matrix(read.matrix.value),
                   expectations |-> _parse_expectations(read.expectations.value)]
    IN IF \E name \in DOMAIN parsed : parsed[name].error # ""
       THEN [error |-> "ConfigError", value |-> None]
       ELSE [error |-> "",
             value |-> [projects |-> parsed.projects.value,
                        modules |-> parsed.modules.value,
                        baselines |-> parsed.baselines.value,
                        matrix |-> parsed.matrix.value,
                        expectations |-> parsed.expectations.value]]

\* EXPECTED_FILES, in the order load_config_bundle reads them
ExpectedFiles ==
    <<"projects", "modules", "baselines", "requirements", "matrix", "expectations">>

\* load_config_bundle(config_dir) over the files of the directory: the first
\* file that cannot be read raises, then the first document that cannot be
\* parsed; the requirements are not part of the bundle here, nothing reads them
load_config_bundle(dir) ==
    LET read == [name \in Range(ExpectedFiles) |-> _read_yaml(dir[name])]
        failed == SelectSeq(ExpectedFiles, LAMBDA name : read[name].error # "")
    IN IF failed # <<>> THEN [error |-> read[Head(failed)].error, value |-> None]
       ELSE ParseBundle(read)

\* The files that load as a ConfigBundle: each document with version 1, a
\* source and a target written with the keys that are not None.
ConfigDirOf(cfg) ==
    LET opt(key, x) == IF x = None THEN <<>> ELSE (key :> x[1])
        source(x) == IF x.type = "git"
                     THEN Mapping([type |-> "git", repo |-> x.repo,
                                   snapshot |-> Mapping(x.snapshot[1])])
                     ELSE Mapping(x)
        sourced(x) == Mapping([id |-> x.id, source |-> source(x.source)])
        target(x) == Mapping(("type" :> x.type) @@ opt("baseline_id", x.baseline_id)
                             @@ opt("signature", x.signature) @@ opt("sha256", x.sha256))
        expected(x) == [x EXCEPT !.target = target(@)]
        rule(x) == Mapping([x EXCEPT !.expect = [k \in DOMAIN @ |-> expected(@[k])]])
        doc(key, items) == YamlFile(Mapping((key :> List(items)) @@ [version |-> 1]))
    IN [projects |-> doc("projects", [i \in DOMAIN cfg.projects |-> sourced(cfg.projects[i])]),
        modules |-> doc("modules", [i \in DOMAIN cfg.modules |-> Mapping(cfg.modules[i])]),
        baselines |-> doc("baselines",
                          [i \in DOMAIN cfg.baselines |-> sourced(cfg.baselines[i])]),
        requirements |-> doc("requirements", <<>>),
        matrix |-> doc("projects", [i \in DOMAIN cfg.matrix |-> Mapping(cfg.matrix[i])]),
        expectations |->
            YamlFile(Mapping([version |-> 1,
                              defaults |-> Mapping(cfg.expectations.defaults),
                              rules |-> List([i \in DOMAIN cfg.expectations.rules |->
                                                 rule(cfg.expectations.rules[i])])]))]

\* A directory whose files load, and the directories made from it by one flaw.
PlainDir ==
    ConfigDirOf([projects |-> <<Project1>>, modules |-> <<Module1, Module2>>,
                 baselines |-> Baselines, matrix |-> <<>>,
                 expectations |-> [defaults |-> <<>>, rules |-> RulesBaseline]])

\* projects.yml with one project, of the source written
ProjectsFile(source) ==
    YamlFile(Mapping([version |-> 1,
                      projects |-> List(<<Mapping([id |-> 1, source |-> source])>>)]))

\* expectations.yml with one rule for module 1, of the target written
ExpectationsFile(target) ==
    YamlFile(Mapping([version |-> 1,
                      rules |-> List(<<Mapping([id |-> 1,
                          expect |-> <<[module |-> 1, expected_level |-> "strict",
                                        target |-> target]>>])>>)]))

\* Directories with a flaw: a file that is missing, a file that is not YAML,
\* a document that is a list, a version other than 1, sources of an unknown
\* type, without a path, without a repository, that are no mapping and
\* without a snapshot, and targets that are no mapping and of an unknown type.
FlawedDirs ==
    { [PlainDir EXCEPT !.projects = [file |-> "missing"]],
      [PlainDir EXCEPT !.modules = [file |-> "unparsable"]],
      [PlainDir EXCEPT !.baselines = YamlFile(List(<<>>))],
      [PlainDir EXCEPT !.matrix = YamlFile(Mapping([version |-> 2, projects |-> List(<<>>)]))],
      [PlainDir EXCEPT !.projects = ProjectsFile(Mapping([type |-> "svn", path |-> AbsolutePath(1)]))],
      [PlainDir EXCEPT !.projects = ProjectsFile(Mapping([type |-> "fs"]))],
      [PlainDir EXCEPT !.projects = ProjectsFile(Mapping([type |-> "git",
                                        snapshot |-> Mapping([type |-> "tag", ref |-> <<"v1">>])]))],
      [PlainDir EXCEPT !.projects = ProjectsFile(List(<<>>))],
      [PlainDir EXCEPT !.projects = ProjectsFile(Mapping([type |-> "git", repo |-> 1]))],
      [PlainDir EXCEPT !.expectations = ExpectationsFile(List(<<>>))],
      [PlainDir EXCEPT !.expectations = ExpectationsFile(Mapping([type |-> "other", baseline_id |-> 1]))] }

\* The configuration directories of the examples.
ConfigDirPool == {ConfigDirOf(cfg) : cfg \in ConfigPool} \cup FlawedDirs

\* ------------------------------------------------- scoring, on its own inputs

\* Simhash values by the positions of their 1 bits: n bits from position lo up.
BitRun(lo, n) == lo..(lo + n - 1)

SimValues ==
    {[bits |-> BitRun(lo, n), hex |-> FormatHex(BitRun(lo, n))] :
        lo \in {0, 24}, n \in {0, 1, 10, 40}}
    \cup {[bits |-> BitRun(0, SimBits), hex |-> FormatHex(BitRun(0, SimBits))]}

\* A signature of a configuration may be longer than 16 digits: here 2^64.
LongValues ==
    {[bits |-> {SimBits}, hex |-> <<"1">> \o FormatHex({})]}

LevelNames == {"strict", "loose", "unset"}

\* expectations.defaults of the examples; thresholds in ten-thousandths.
DefaultsPool ==
    { <<>>,
      [thresholds |-> [strict |-> [ok |-> 9500, warn |-> 5000]]],
      [thresholds |-> [strict |-> [ok |-> 8438, warn |-> 3750],
                       loose |-> [ok |-> 5000]]],
      [thresholds |-> [strict |-> [ok |-> 15000, warn |-> 10000],
                       loose |-> [warn |-> 9000]]],
      [thresholds |-> [loose |-> [ok |-> 0, warn |-> 0]]] }

ScoreInputs ==
    [module_sha : {sha256_hex(TextAB)},
     target_sha : {sha256_hex(TextAB), sha256_hex(TextAC)},
     module_sim : SimValues,
     target_sim : SimValues \cup LongValues,
     expected_level : LevelNames,
     target_type : {"baseline", "signature"},
     defaults : DefaultsPool]

ScoreIdle == scoreIn = None /\ scoreOut = None
RulesIdle == ruleIn = None /\ ruleOut = None

\* No call of checkout_git_source was counted.
NoCount == [clones |-> <<>>, adds |-> <<>>]

\* No process: no configuration, an empty cache, nothing analyzed.
AnalyzerIdle ==
    /\ config_dir = None /\ config = None /\ fs = None
    /\ project_path = None /\ exception = None
    /\ file_cache = <<>> /\ module_cache = <<>> /\ stats = NoStats /\ _baseline_cache = <<>>
    /\ cache_calls = <<>>
    /\ project = None /\ active_requirements = <<>> /\ rules = <<>> /\ modules_left = <<>>
    /\ report_modules = <<>> /\ evidence_modules = <<>>
    /\ pc = "idle" /\ projects_left = <<>> /\ report_projects = <<>>
    /\ evidence_projects = <<>> /\ written = None /\ exit_code = None

\* No run: no process, no remote repository and nothing checked out.
RunIdle ==
    /\ AnalyzerIdle
    /\ remote = None /\ git = EmptyGit /\ git_call = None /\ git_count = NoCount
    /\ cache_dir = <<>> /\ procs = <<>>

runState == <<gitLog, raceVars, config_dir, config, diskVars, cacheVars, projectVars, runVars>>

InitScore ==
    /\ \E in \in ScoreInputs : scoreIn = Some(in)
    /\ scoreOut = None
    /\ RulesIdle
    /\ RunIdle

\* Analyzer._analyze_project, lines 173-186: the score of a module against its
\* target, the thresholds of the expectation's level, the status and the
\* reported score.
ScoreStep ==
    /\ scoreIn # None
    /\ scoreOut = None
    /\ LET in == scoreIn[1]
           score == similarity_score(in.module_sha, in.target_sha,
                                     in.module_sim.hex, in.target_sim.hex)
           thresholds == _resolve_thresholds(in.defaults, in)
           status == _classify_status(score, thresholds, in.target_type)
       IN scoreOut' = Some([score |-> score, status |-> status,
                            reported |-> Round4(score)])
    /\ UNCHANGED <<scoreIn, ruleIn, ruleOut, runState>>

NextScore == ScoreStep

SpecScore == InitScore /\ [][NextScore]_vars

\* --------------------------------------- rule selection, on its own inputs

\* The longest rule list of the examples.
MaxRules == 2

\* rule.when of the examples: a missing key is a missing field
WhenPool ==
    { <<>>,
      [projects |-> <<>>],
      [projects |-> <<Star>>, requires_all |-> <<>>],
      [projects |-> <<2>>],
      [projects |-> <<1>>, requires_all |-> <<1>>],
      [requires_all |-> <<1, 2>>] }

\* rule.expect of the examples
ExpectPool ==
    { <<>>,
      <<Expect(1, "strict", BaselineTarget(Some(1)))>>,
      <<Expect(1, "loose", SignatureTarget(Some(FormatHex({})), Some(sha256_hex(TextAB)))),
        Expect(1, "strict", BaselineTarget(Some(1)))>>,
      <<Expect(2, "strict", BaselineTarget(Some(1))),
        Expect(1, "unset", BaselineTarget(Some(2)))>> }

RulePool == [priority : {0, 1}, when : WhenPool, expect : ExpectPool]

\* The rule lists of at most n rules of the pool; a rule's id is its place in
\* the declaration.
RuleLists(n) ==
    {[i \in DOMAIN body |-> [id |-> i, priority |-> body[i].priority,
                             when |-> body[i].when, expect |-> body[i].expect]] :
        body \in UNION {[1..k -> RulePool] : k \in 0..n}}

\* matrix.yml of the examples
MatrixPool ==
    { <<>>,
      <<[id |-> 1, requires |-> <<[id |-> 1, must_have |-> TRUE],
                                  [id |-> 2, must_have |-> FALSE]>>]>>,
      <<[id |-> 2, requires |-> <<[id |-> 1, must_have |-> TRUE],
                                  [id |-> 2, must_have |-> TRUE]>>],
        [id |-> 1, requires |-> <<[id |-> 2, must_have |-> TRUE], [id |-> 1]>>],
        [id |-> 1, requires |-> <<[id |-> 1, must_have |-> TRUE]>>]>> }

ProjectIds == {1, 2}
ModuleIds == {1, 2}

InitRules ==
    /\ \E declared \in RuleLists(MaxRules), matrix \in MatrixPool,
          project_id \in ProjectIds, module_id \in ModuleIds :
          ruleIn = Some([rules |-> declared, matrix |-> matrix,
                         project_id |-> project_id, module_id |-> module_id])
    /\ ruleOut = None
    /\ ScoreIdle
    /\ RunIdle

\* Analyzer._analyze_project, lines 108-109 and 143: the project's active
\* requirements, its applicable rules, and the expectation of one module.
SelectStep ==
    /\ ruleIn # None
    /\ ruleOut = None
    /\ LET in == ruleIn[1]
           active == _active_requirements(in.matrix, in.project_id)
           matched == _matching_rules(in.rules, in.project_id, active)
           expectation == _select_expectation(matched, in.module_id)
       IN ruleOut' = Some([active_requirements |-> active,
                           rules |-> matched, expectation |-> expectation])
    /\ UNCHANGED <<ruleIn, scoreIn, scoreOut, runState>>

NextRules == SelectStep

SpecRules == InitRules /\ [][NextRules]_vars

\* ------------------------------------------ git sources, on their own inputs

MaxCount == 2

\* The repositories and the refs of the calls: "release" is a path prefix of
\* "release/1.0", and no remote has a ref "v9".
GitRepos == {1, 2}
GitRefs == {<<"release">>, <<"release", "1.0">>, <<"v9">>}

\* The remote repositories, before and after the branch "release" of
\* repository 1 has moved.
GitRemotePool ==
    { (1 :> (<<"release">> :> TreeBase @@ <<"release", "1.0">> :> TreeSame)
       @@ 2 :> (<<"release">> :> TreeLast)),
      (1 :> (<<"release">> :> TreeDrift @@ <<"release", "1.0">> :> TreeSame)
       @@ 2 :> (<<"release">> :> TreeLast)) }

InitGit ==
    /\ remote \in GitRemotePool
    /\ git = EmptyGit
    /\ git_call = None
    /\ git_count = NoCount
    /\ cache_dir = <<>> /\ procs = <<>>
    /\ AnalyzerIdle /\ ScoreIdle /\ RulesIdle

\* n + 1, up to MaxCount
Counted(counts, key) ==
    DictSet(counts, key, IF DictGet(counts, key, 0) < MaxCount
                         THEN DictGet(counts, key, 0) + 1 ELSE MaxCount)

\* One call checkout_git_source(repo, ref, cache_dir), with the transport
\* working or not; a clone and a worktree add that succeeded are counted.
Checkout ==
    \E repo \in GitRepos, ref \in GitRefs, net \in BOOLEAN :
    \E r \in {checkout_git_source(repo, ref, git, remote, net)} :
        /\ git' = r.git
        /\ git_call' = Some([repo |-> repo, ref |-> ref, before |-> git,
                             raised |-> r.raised, path |-> r.path, ran |-> r.ran])
        /\ git_count' =
              [clones |-> IF _hash_repo(repo) \in DOMAIN r.git.repos \ DOMAIN git.repos
                          THEN Counted(git_count.clones, _hash_repo(repo))
                          ELSE git_count.clones,
               adds |-> IF ~r.raised /\ "worktree add" \in Range(r.ran)
                        THEN Counted(git_count.adds, <<_hash_repo(repo), ref>>)
                        ELSE git_count.adds]
        /\ UNCHANGED <<pureVars, raceVars, config_dir, config, fs, remote, cacheVars,
                       projectVars, runVars>>

\* The remote repositories change between two calls.
RemoteMoves ==
    /\ remote' \in GitRemotePool \ {remote}
    /\ UNCHANGED <<pureVars, gitLog, raceVars, config_dir, config, fs, git, cacheVars, projectVars,
                   runVars>>

NextGit == Checkout \/ RemoteMoves

SpecGit == InitGit /\ [][NextGit]_vars

\* ------------------------------------- two processes over one cache directory

MaxFiles == 2

\* The two analyzer processes, and the texts of the files they fingerprint.
Procs == {1, 2}
RaceTexts == {TextAB, TextC}

\* The file lists a process can have: one to MaxFiles files.
RaceFiles == UNION {[1..n -> RaceTexts] : n \in 1..MaxFiles}

\* json.dumps(data, ensure_ascii=False, sort_keys=True): the text of a record
json_dumps(data) == <<"{", data, "}">>

\* json.loads(text): the record, or JSONDecodeError for a text that is not a
\* whole JSON document
json_loads(text) ==
    IF Len(text) = 3 /\ text[1] = "{" /\ text[3] = "}"
    THEN [error |-> "", value |-> Some(text[2])]
    ELSE [error |-> "JSONDecodeError", value |-> None]

\* The key of the file a process is at.
RawHash(p) == sha256_hex(Head(procs[p].files))

\* Each process is about to fingerprint its files; the cache directory is new.
InitRace ==
    /\ cache_dir = <<>>
    /\ procs \in [Procs -> {[pc |-> "get", files |-> files, returned |-> <<>>,
                             wrote |-> {}, stats |-> NoStats] : files \in RaceFiles}]
    /\ git = EmptyGit /\ remote = None /\ git_call = None /\ git_count = NoCount
    /\ AnalyzerIdle /\ ScoreIdle /\ RulesIdle

\* The steps of the two processes leave everything else alone.
RaceRest ==
    UNCHANGED <<pureVars, gitLog, config_dir, config, diskVars, cacheVars, projectVars,
                runVars>>

\* CacheStore.get_file, lines 28-32: path.exists(), and the counter
GetExists(p) ==
    /\ procs[p].pc = "get"
    /\ procs' = [procs EXCEPT ![p] =
          IF RawHash(p) \in DOMAIN cache_dir
          THEN [@ EXCEPT !.pc = "read", !.stats.file_cache_hits = @ + 1]
          ELSE [@ EXCEPT !.pc = "open", !.stats.file_cache_misses = @ + 1,
                         !.returned = Append(@, None)]]
    /\ UNCHANGED cache_dir
    /\ RaceRest

\* What a process does after the fingerprint of a file: the next file, or the end.
NextFile(proc) ==
    [proc EXCEPT !.files = Tail(@), !.pc = IF Tail(proc.files) = <<>> THEN "end" ELSE "get"]

\* CacheStore.get_file, line 30: json.loads(path.read_text()); an exception
\* leaves _fingerprint_file and the analysis
GetRead(p) ==
    /\ procs[p].pc = "read"
    /\ \E r \in {json_loads(cache_dir[RawHash(p)])} :
          procs' = [procs EXCEPT ![p] =
              IF r.error # ""
              THEN [@ EXCEPT !.pc = "crashed", !.returned = Append(@, Some(r.error))]
              ELSE NextFile([@ EXCEPT !.returned = Append(@, r.value)])]
    /\ UNCHANGED cache_dir
    /\ RaceRest

\* CacheStore.set_file, line 36: path.write_text opens the file for writing,
\* which creates it or truncates it
SetOpen(p) ==
    /\ procs[p].pc = "open"
    /\ cache_dir' = DictSet(cache_dir, RawHash(p), <<>>)
    /\ procs' = [procs EXCEPT ![p].pc = "write"]
    /\ RaceRest

\* CacheStore.set_file, line 36: path.write_text writes the text and closes
SetWrite(p) ==
    /\ procs[p].pc = "write"
    /\ cache_dir' = DictSet(cache_dir, RawHash(p),
                            json_dumps(FileFingerprintTable[Head(procs[p].files)]))
    /\ procs' = [procs EXCEPT ![p] = NextFile([@ EXCEPT !.wrote = @ \cup {RawHash(p)}])]
    /\ RaceRest

NextRace == \E p \in Procs : GetExists(p) \/ GetRead(p) \/ SetOpen(p) \/ SetWrite(p)

SpecRace == InitRace /\ [][NextRace]_vars

\* ------------------------------------------------------------------ the run

RECURSIVE Sorted(_)
\* sorted(items) for a list of naturals: an item stays as often as it is there
Sorted(items) ==
    IF items = <<>> THEN <<>>
    ELSE LET low == CHOOSE x \in Range(items) : \A y \in Range(items) : x <= y
         IN SelectSeq(items, LAMBDA x : x = low)
            \o Sorted(SelectSeq(items, LAMBDA x : x # low))

\* Analyzer._analyze_project, lines 193-197
snapshot_ref(p) ==
    IF p.source.type = "git" /\ p.source.snapshot # None THEN p.source.snapshot[1].ref
    ELSE IF p.source.type = "fs" THEN p.source.path
    ELSE None

\* Analyzer._analyze_project, lines 199-205: the project's entry of the
\* report; the title is left out
ProjectReport(p, active, rows) ==
    [id |-> p.id, snapshot_ref |-> snapshot_ref(p),
     requirements |-> Sorted(active), modules |-> rows]

\* Analyzer._analyze_project, lines 206-211: the project's entry of the
\* evidence; the title is left out
ProjectEvidence(p, evidence) ==
    [id |-> p.id, snapshot_ref |-> snapshot_ref(p), modules |-> evidence]

\* The cache of the running process as one value, before the calls of a step.
CurrentStore ==
    [file_cache |-> file_cache, module_cache |-> module_cache, stats |-> stats,
     calls |-> <<>>]

\* What the running process reads, with the transport as it is during a step.
CurrentTrees(net) == [fs |-> fs, git |-> git, remote |-> remote, net |-> net]

\* The command is started over a configuration directory, file trees and an
\* empty cache directory.
Init ==
    /\ config_dir \in ConfigDirPool
    /\ config = None
    /\ fs \in FsPool
    /\ remote = RemoteRepos
    /\ git = EmptyGit
    /\ git_call = None /\ git_count = NoCount
    /\ cache_dir = <<>> /\ procs = <<>>
    /\ file_cache = <<>> /\ module_cache = <<>> /\ stats = NoStats /\ _baseline_cache = <<>>
    /\ cache_calls = <<>>
    /\ project = None /\ project_path = None /\ exception = None
    /\ active_requirements = <<>> /\ rules = <<>> /\ modules_left = <<>>
    /\ report_modules = <<>> /\ evidence_modules = <<>>
    /\ pc = "start" /\ projects_left = <<>> /\ report_projects = <<>>
    /\ evidence_projects = <<>> /\ written = None /\ exit_code = None
    /\ ScoreIdle /\ RulesIdle

\* analyze_command, lines 12-19: the configuration is loaded; a ConfigError
\* makes the command return 2, any other exception of the loader is not
\* caught and ends the process with a traceback and exit status 1; then
\* Analyzer(config, cache_dir)
Load ==
    /\ pc = "start"
    /\ \E r \in {load_config_bundle(config_dir)} :
          IF r.error = ""
          THEN /\ config' = r.value
               /\ pc' = "ready"
               /\ UNCHANGED <<exit_code, exception>>
          ELSE /\ exception' = Some(r.error)
               /\ pc' = IF r.error = "ConfigError" THEN "rejected" ELSE "crashed"
               /\ exit_code' = IF r.error = "ConfigError" THEN Some(2) ELSE Some(1)
               /\ UNCHANGED config
    /\ UNCHANGED <<pureVars, gitLog, raceVars, config_dir, diskVars, cacheVars, projectVars, projects_left,
                   report_projects, evidence_projects, written>>

\* Analyzer.analyze, lines 44-49: the projects in the order of their ids
Analyze ==
    /\ pc = "ready"
    /\ projects_left' = SortedById(config.projects)
    /\ report_projects' = <<>>
    /\ evidence_projects' = <<>>
    /\ pc' = "projects"
    /\ UNCHANGED <<pureVars, gitLog, raceVars, config_dir, config, diskVars, cacheVars, projectVars, written, exit_code,
                   exception>>

\* Analyzer._analyze_project, lines 107-113: the next project starts; an
\* exception of the resolver leaves analyze() and analyze_command returns 1
BeginProject ==
    /\ pc = "projects"
    /\ projects_left # <<>>
    /\ \E net \in BOOLEAN :
       \E r \in {_resolve_project_path(CurrentTrees(net), Head(projects_left))} :
          /\ git' = r.git
          /\ IF r.raised
             THEN /\ pc' = "failed"
                  /\ exit_code' = Some(1)
                  /\ exception' = Some(r.error)
                  /\ UNCHANGED <<projectVars, projects_left>>
             ELSE /\ LET p == Head(projects_left)
                         active == _active_requirements(config.matrix, p.id)
                     IN /\ project' = Some(p)
                        /\ active_requirements' = active
                        /\ rules' = _matching_rules(config.expectations.rules, p.id, active)
                  /\ project_path' = r.path
                  /\ modules_left' = SortedById(config.modules)
                  /\ report_modules' = <<>>
                  /\ evidence_modules' = <<>>
                  /\ projects_left' = Tail(projects_left)
                  /\ pc' = "modules"
                  /\ UNCHANGED <<exit_code, exception>>
    /\ UNCHANGED <<pureVars, gitLog, raceVars, config_dir, config, fs, remote, cacheVars, report_projects,
                   evidence_projects, written>>

\* Analyzer._analyze_project, lines 113-191: one module of the project; an
\* exception leaves analyze() and analyze_command returns 1
AnalyzeModule ==
    /\ pc = "modules"
    /\ modules_left # <<>>
    /\ \E net \in BOOLEAN :
       \E r \in {_analyze_module(config, CurrentTrees(net), CurrentStore, _baseline_cache,
                                  project_path[1], rules, Head(modules_left))} :
          /\ git' = r.git
          /\ file_cache' = r.store.file_cache
          /\ module_cache' = r.store.module_cache
          /\ stats' = r.store.stats
          /\ cache_calls' = r.store.calls
          /\ _baseline_cache' = r.memo
          /\ evidence_modules' = DictSet(evidence_modules, Head(modules_left).id, r.evidence)
          /\ IF r.raised
             THEN /\ pc' = "failed"
                  /\ exit_code' = Some(1)
                  /\ exception' = Some(r.error)
                  /\ UNCHANGED <<report_modules, modules_left>>
             ELSE /\ report_modules' = Append(report_modules, r.row[1])
                  /\ modules_left' = Tail(modules_left)
                  /\ UNCHANGED <<pc, exit_code, exception>>
    /\ UNCHANGED <<pureVars, gitLog, raceVars, config_dir, config, fs, remote, project, project_path,
                   active_requirements, rules, projects_left, report_projects,
                   evidence_projects, written>>

\* EndProject writing the report as far as it is, project by project
EndProjectWritingReport ==
    /\ pc = "modules"
    /\ modules_left = <<>>
    /\ report_projects' =
           Append(report_projects,
                  ProjectReport(project[1], active_requirements, report_modules))
    /\ evidence_projects' =
           DictSet(evidence_projects, project[1].id,
                   ProjectEvidence(project[1], evidence_modules))
    /\ written' = Some([report |-> [projects |-> report_projects']])
    /\ pc' = "projects"
    /\ UNCHANGED <<pureVars, gitLog, raceVars, config_dir, config, diskVars, cacheVars, projectVars, projects_left,
                   exit_code, exception>>

\* Analyzer._analyze_project, lines 193-212, and analyze, lines 51-52: the
\* project's entries join the report and the evidence; titles are left out
EndProject ==
    /\ pc = "modules"
    /\ modules_left = <<>>
    /\ report_projects' =
           Append(report_projects,
                  ProjectReport(project[1], active_requirements, report_modules))
    /\ evidence_projects' =
           DictSet(evidence_projects, project[1].id,
                   ProjectEvidence(project[1], evidence_modules))
    /\ pc' = "projects"
    /\ UNCHANGED <<pureVars, gitLog, raceVars, config_dir, config, diskVars, cacheVars, projectVars, projects_left,
                   written, exit_code, exception>>

\* Analyzer.analyze, lines 54-104, and analyze_command's return 0: the five
\* artifacts; run_id and generated_at are left out
Finish ==
    /\ pc = "projects"
    /\ projects_left = <<>>
    /\ written' = Some([report |-> [projects |-> report_projects],
                        evidence |-> [projects |-> evidence_projects],
                        actions |-> [actions |-> _build_actions(report_projects)],
                        manifest |-> [projects |->
                            [i \in DOMAIN report_projects |->
                                [id |-> report_projects[i].id,
                                 snapshot_ref |-> report_projects[i].snapshot_ref]]],
                        cache_stats |-> stats])
    /\ exit_code' = Some(0)
    /\ pc' = "done"
    /\ UNCHANGED <<pureVars, gitLog, raceVars, config_dir, config, diskVars, cacheVars, projectVars, projects_left,
                   report_projects, evidence_projects, exception>>

\* The command is run again, with the same configuration and cache directory
\* and a new output directory, over trees that may have changed: a new
\* process, CacheStore.__init__ and Analyzer.__init__
NextRun ==
    /\ pc \in {"done", "failed", "rejected", "crashed"}
    /\ config' = None
    /\ fs' \in FsPool
    /\ stats' = NoStats
    /\ cache_calls' = <<>>
    /\ _baseline_cache' = <<>>
    /\ project' = None /\ project_path' = None
    /\ active_requirements' = <<>> /\ rules' = <<>> /\ modules_left' = <<>>
    /\ report_modules' = <<>> /\ evidence_modules' = <<>>
    /\ pc' = "start" /\ projects_left' = <<>> /\ report_projects' = <<>>
    /\ evidence_projects' = <<>> /\ written' = None /\ exit_code' = None
    /\ exception' = None
    /\ UNCHANGED <<pureVars, gitLog, raceVars, config_dir, remote, git, file_cache, module_cache>>

Next ==
    \/ Load
    \/ Analyze
    \/ BeginProject
    \/ AnalyzeModule
    \/ EndProject
    \/ Finish
    \/ NextRun

Spec == Init /\ [][Next]_vars

\* ================================================================== claims

\* The rows reported so far, each with the id of its project: those of the
\* projects that are finished and those of the project being analyzed.
ReportedRows ==
    UNION {{<<report_projects[i].id, report_projects[i].modules[k]>> :
               k \in DOMAIN report_projects[i].modules} : i \in DOMAIN report_projects}
    \cup (IF project = None THEN {}
          ELSE {<<project[1].id, report_modules[k]>> : k \in DOMAIN report_modules})

\* The configured project and module of an id.
ProjectOf(id) == CHOOSE p \in Range(config.projects) : p.id = id

\* The tree the files of a source are read from: the directory of an fs
\* source, the worktree of a git source once it is checked out.
SourceTree(source) ==
    IF source.type = "fs" THEN fs[source.path.root]
    ELSE TreeAt(CurrentTrees(TRUE),
                WorktreeDir(_hash_repo(source.repo), source.snapshot[1].ref))

ProjectTree(p) == SourceTree(p.source)
ModuleOf(id) == CHOOSE m \in Range(config.modules) : m.id = id

\* The files of a tree that a module matches: in some include pattern and in
\* no exclude pattern.
MatchedFiles(tree, m) ==
    {path \in DOMAIN tree :
        /\ \E i \in DOMAIN m.include : path \in m.include[i]
        /\ \A i \in DOMAIN m.exclude : path \notin m.exclude[i]}

\* The expectation that governs a module in a project: None, or the first
\* match among the project's applicable rules.
Governing(project_id, module_id) ==
    _select_expectation(
        _matching_rules(config.expectations.rules, project_id,
                        _active_requirements(config.matrix, project_id)),
        module_id)

\* The ids of the configured baselines.
BaselineIds == {config.baselines[i].id : i \in DOMAIN config.baselines}

\* A target names a baseline that is not configured.
UnknownBaseline(target) ==
    /\ target.type = "baseline"
    /\ target.baseline_id # None
    /\ target.baseline_id[1] \notin BaselineIds

\* A target has no fingerprint for a module: a signature without its simhash
\* or its hash, a baseline target without an id, a configured baseline whose
\* tree has no file of the module, or a target of another type.
Unresolvable(target, m) ==
    IF target.type = "signature" THEN target.signature = None \/ target.sha256 = None
    ELSE IF target.type = "baseline"
    THEN \/ target.baseline_id = None
         \/ /\ target.baseline_id[1] \in BaselineIds
            /\ LET b == CHOOSE b \in Range(config.baselines) : b.id = target.baseline_id[1]
               IN MatchedFiles(SourceTree(b.source), m) = {}
    ELSE TRUE

ScoredStatuses == {"OK_BASELINE", "OK_EXPECTED", "WARN", "DRIFT_UNEXPECTED"}

\* C1: the status of every reported row is decided in this order: MISSING when
\* the module matches no file of the project (whether or not a rule has an
\* expectation for it); otherwise UNMAPPED when no applicable rule has an
\* expectation for it; otherwise MISSING when the target of its expectation
\* has no fingerprint; and only otherwise a score is computed and the status
\* is one of OK_BASELINE, OK_EXPECTED, WARN, DRIFT_UNEXPECTED.
C1_StatusOrder ==
    \A pr \in ReportedRows :
        LET row == pr[2]
            m == ModuleOf(row.module_id)
            files == MatchedFiles(ProjectTree(ProjectOf(pr[1])), m)
            expectation == Governing(pr[1], row.module_id)
        IN IF files = {} THEN row.status = "MISSING" /\ row.score = None
           ELSE IF expectation = None THEN row.status = "UNMAPPED" /\ row.score = None
           ELSE IF Unresolvable(expectation[1].target, m)
           THEN row.status = "MISSING" /\ row.score = None
           ELSE UnknownBaseline(expectation[1].target)
                \/ (row.status \in ScoredStatuses /\ row.score # None)

\* C1's case: one completed run reports a module without files as MISSING
\* though a rule has an expectation for it, a module with files whose baseline
\* has none of its files as MISSING, and a third one with a score.
C1_Witness ==
    /\ pc = "done"
    /\ \E pr \in ReportedRows :
          /\ MatchedFiles(ProjectTree(ProjectOf(pr[1])), ModuleOf(pr[2].module_id)) = {}
          /\ Governing(pr[1], pr[2].module_id) # None
          /\ pr[2].status = "MISSING"
    /\ \E pr \in ReportedRows :
          /\ MatchedFiles(ProjectTree(ProjectOf(pr[1])), ModuleOf(pr[2].module_id)) # {}
          /\ Governing(pr[1], pr[2].module_id) # None
          /\ Unresolvable(Governing(pr[1], pr[2].module_id)[1].target,
                          ModuleOf(pr[2].module_id))
          /\ pr[2].status = "MISSING"
    /\ \E pr \in ReportedRows : pr[2].status \in ScoredStatuses /\ pr[2].score # None


\* The number of bits in which two simhash values of the examples differ.
BitsApart(x, y) == Cardinality((x.bits \ y.bits) \cup (y.bits \ x.bits))

\* C2: when a score is computed, the thresholds are those configured for the
\* expectation's level, or {ok: 1.0, warn: 0.0} when the level is not
\* configured (a key the level leaves out takes the same default); the status
\* is OK_BASELINE or OK_EXPECTED (by target kind) when score >= ok, WARN when
\* warn <= score < ok, DRIFT_UNEXPECTED when score < ok and score < warn; the
\* score compared is the unrounded one: distance 40 under {0.95, 0.5} is
\* DRIFT_UNEXPECTED and distance 10 is WARN.
C2_StatusFollowsThresholds ==
    scoreOut # None =>
        LET in == scoreIn[1]
            out == scoreOut[1]
            configured == /\ "thresholds" \in DOMAIN in.defaults
                          /\ in.expected_level \in DOMAIN in.defaults.thresholds
            level == in.defaults.thresholds[in.expected_level]
            ok == IF configured /\ "ok" \in DOMAIN level THEN level.ok ELSE 10000
            warn == IF configured /\ "warn" \in DOMAIN level THEN level.warn ELSE 0
            \* score = out.score / 64 and a threshold t = t / 10000
            reachesOk == out.score * 10000 >= ok * 64
            reachesWarn == out.score * 10000 >= warn * 64
            apart == BitsApart(in.module_sim, in.target_sim)
        IN /\ out.status = "OK_BASELINE" <=> (reachesOk /\ in.target_type = "baseline")
           /\ out.status = "OK_EXPECTED" <=> (reachesOk /\ in.target_type = "signature")
           /\ out.status = "WARN" <=> (~reachesOk /\ reachesWarn)
           /\ out.status = "DRIFT_UNEXPECTED" <=> (~reachesOk /\ ~reachesWarn)
           /\ (/\ in.module_sha # in.target_sha
               /\ configured /\ level = [ok |-> 9500, warn |-> 5000])
              => /\ apart = 40 => out.status = "DRIFT_UNEXPECTED"
                 /\ apart = 10 => out.status = "WARN"

\* C2's case: distance 10 (score 54/64, reported 0.8438) under an ok threshold
\* of 0.8438 is WARN, though the rounded score would reach the threshold.
C2_Witness ==
    /\ scoreOut # None
    /\ scoreOut[1].score = 54
    /\ scoreOut[1].reported = 8438
    /\ scoreOut[1].status = "WARN"
    /\ scoreIn[1].expected_level = "strict"
    /\ scoreIn[1].defaults = [thresholds |-> [strict |-> [ok |-> 8438, warn |-> 3750],
                                              loose |-> [ok |-> 5000]]]

\* C6: similarity is 1.0 when the two hashes are equal; otherwise, for 64-bit
\* simhash values, 1 - d/64 with d the number of bits in which they differ;
\* it always lies in [0, 1]; a fingerprint compared with itself gives 1.0.
C6_SimilarityFormula ==
    scoreOut # None =>
        LET in == scoreIn[1]
            out == scoreOut[1]
            apart == BitsApart(in.module_sim, in.target_sim)
            is64(x) == x.bits \subseteq 0..63 /\ Len(x.hex) = 16
        IN /\ in.module_sha = in.target_sha => out.score = 64
           /\ (in.module_sha # in.target_sha /\ is64(in.module_sim) /\ is64(in.target_sim))
              => (apart \in 0..64 /\ out.score = 64 - apart)
           /\ out.score \in 0..64
           /\ (in.module_sha = in.target_sha /\ in.module_sim = in.target_sim)
              => out.score = 64

\* C6's case: two different hashes, simhash values 40 bits apart, score 24/64.
C6_Witness ==
    /\ scoreOut # None
    /\ scoreIn[1].module_sha # scoreIn[1].target_sha
    /\ BitsApart(scoreIn[1].module_sim, scoreIn[1].target_sim) = 40
    /\ scoreOut[1].score = 24

\* The declared rules of ruleIn that meet the claim's condition for its project.
DeclaredApplicable ==
    LET in == ruleIn[1]
        active == Range(ruleOut[1].active_requirements)
    IN {i \in DOMAIN in.rules :
           LET when == in.rules[i].when
           IN /\ \/ "projects" \notin DOMAIN when
                 \/ when.projects = <<>>
                 \/ \E k \in DOMAIN when.projects : when.projects[k] = Star
                 \/ \E k \in DOMAIN when.projects : when.projects[k] = in.project_id
              /\ \/ "requires_all" \notin DOMAIN when
                 \/ \A k \in DOMAIN when.requires_all : when.requires_all[k] \in active}

\* C3: the expectation selected for a module is the first one with its id when
\* the applicable rules are scanned by priority descending, rules of equal
\* priority in declaration order, and each expect list in declared order.
C3_FirstMatchWins ==
    ruleOut # None =>
        LET in == ruleIn[1]
            out == ruleOut[1]
            names(i) == \E k \in DOMAIN in.rules[i].expect :
                            in.rules[i].expect[k].module = in.module_id
            naming == {i \in DeclaredApplicable : names(i)}
            \* rule i is scanned before rule j
            before(i, j) == \/ in.rules[i].priority > in.rules[j].priority
                            \/ (in.rules[i].priority = in.rules[j].priority /\ i < j)
        IN IF naming = {} THEN out.expectation = None
           ELSE LET i == CHOOSE i \in naming : \A j \in naming \ {i} : before(i, j)
                    expect == in.rules[i].expect
                    k == CHOOSE k \in DOMAIN expect :
                             /\ expect[k].module = in.module_id
                             /\ \A l \in 1..(k - 1) : expect[l].module # in.module_id
                IN out.expectation = Some([rule_id |-> in.rules[i].id,
                                           expected_level |-> expect[k].expected_level,
                                           target |-> expect[k].target])

\* C3's case: two applicable rules of one priority name the module, with
\* different expectations, and the one declared first governs it.
C3_Witness ==
    /\ ruleOut # None
    /\ Len(ruleIn[1].rules) = 2
    /\ DeclaredApplicable = {1, 2}
    /\ ruleIn[1].rules[1].priority = ruleIn[1].rules[2].priority
    /\ ruleIn[1].module_id = 1
    /\ ruleIn[1].rules[1].expect = <<Expect(1, "strict", BaselineTarget(Some(1)))>>
    /\ Len(ruleIn[1].rules[2].expect) = 2
    /\ ruleIn[1].rules[2].expect[1].module = 1
    /\ ruleIn[1].rules[2].expect[1].expected_level = "loose"
    /\ ruleOut[1].expectation # None
    /\ ruleOut[1].expectation[1].rule_id = 1
    /\ ruleOut[1].expectation[1].expected_level = "strict"

\* C4: a rule is in the project's applicable-rule list exactly when
\* (when.projects is missing or empty, or contains "*", or contains the
\* project id) and every id of when.requires_all is among the project's
\* active requirements; the expectation selected comes from no other rule.
C4_ApplicableRules ==
    ruleOut # None =>
        LET out == ruleOut[1]
        IN /\ {out.rules[i].rule_id : i \in DOMAIN out.rules} = DeclaredApplicable
           /\ Len(out.rules) = Cardinality(DeclaredApplicable)
           /\ out.expectation # None => out.expectation[1].rule_id \in DeclaredApplicable

\* C4's case: of two rules that name the project, the one whose requires_all
\* asks for an inactive requirement is left out, and the other one governs.
C4_Witness ==
    /\ ruleOut # None
    /\ ruleIn[1].project_id = 1
    /\ ruleOut[1].active_requirements = <<2>>
    /\ Len(ruleIn[1].rules) = 2
    /\ ruleIn[1].rules[1].when = [projects |-> <<1>>, requires_all |-> <<1>>]
    /\ ruleIn[1].rules[1].priority = 1
    /\ ruleIn[1].rules[2].when = [projects |-> <<Star>>, requires_all |-> <<>>]
    /\ DeclaredApplicable = {2}
    /\ ruleOut[1].expectation # None
    /\ ruleOut[1].expectation[1].rule_id = 2

\* The fingerprint the evidence records for a module of a project, or None.
RecordedFingerprint(project_id, module_id) ==
    IF project # None /\ project[1].id = project_id /\ module_id \in DOMAIN evidence_modules
    THEN evidence_modules[module_id].module_fingerprint
    ELSE evidence_projects[project_id].modules[module_id].module_fingerprint

\* A reported row whose target is a baseline that was resolved to a
\* fingerprint for the row's module with the same normalized content hash as
\* the module's own fingerprint.
MatchesBaseline(pr) ==
    LET row == pr[2]
    IN /\ row.target # None
       /\ row.target[1].type = "baseline"
       /\ row.target[1].baseline_id # None
       /\ row.target[1].baseline_id[1] \in DOMAIN _baseline_cache
       /\ row.module_id \in DOMAIN _baseline_cache[row.target[1].baseline_id[1]]
       /\ RecordedFingerprint(pr[1], row.module_id) # None
       /\ RecordedFingerprint(pr[1], row.module_id)[1].sha256_normalized
          = _baseline_cache[row.target[1].baseline_id[1]][row.module_id].sha256_normalized

\* The ok threshold in effect for a level: the configured one, or 1.0.
OkInEffect(level) ==
    IF /\ "thresholds" \in DOMAIN config.expectations.defaults
       /\ level \in DOMAIN config.expectations.defaults.thresholds
       /\ "ok" \in DOMAIN config.expectations.defaults.thresholds[level]
    THEN config.expectations.defaults.thresholds[level].ok
    ELSE 10000

\* C5 as claimed: whenever a module's normalized content hash equals that of
\* the baseline target fingerprint resolved for it, its reported status is
\* OK_BASELINE and its reported score is 1.0, whatever the expected_level.
C5_AsClaimed ==
    \A pr \in ReportedRows :
        MatchesBaseline(pr) => (pr[2].status = "OK_BASELINE" /\ pr[2].score = Some(10000))

\* C5, amended: whenever a module's normalized content hash equals that of the
\* baseline target fingerprint resolved for it, its reported score is 1.0,
\* and its reported status is OK_BASELINE provided the ok threshold in effect
\* for the expectation's level (the configured one, or 1.0) is at most 1.0.
C5_ExactMatchIsOkBaseline ==
    \A pr \in ReportedRows :
        MatchesBaseline(pr) =>
            /\ pr[2].score = Some(10000)
            /\ OkInEffect(pr[2].expected_level[1]) <= 10000 => pr[2].status = "OK_BASELINE"

\* C5's case: a project tree whose files differ from the baseline's in spacing
\* and comments only, under a configured ok threshold of 0.95, in a completed
\* run: OK_BASELINE with score 1.0.
C5_Witness ==
    /\ pc = "done"
    /\ fs[1] = TreeSame /\ fs[3] = TreeBase
    /\ \E pr \in ReportedRows :
          /\ pr[1] = 1 /\ pr[2].module_id = 1
          /\ MatchesBaseline(pr)
          /\ OkInEffect(pr[2].expected_level[1]) = 9500
          /\ pr[2].status = "OK_BASELINE"
          /\ pr[2].score = Some(10000)

\* The rows of the report that was written, each with the id of its project.
WrittenRows ==
    LET projects == written[1].report.projects
    IN UNION {{<<projects[i].id, projects[i].modules[k]>> :
                  k \in DOMAIN projects[i].modules} : i \in DOMAIN projects}

ActionStatuses == {"WARN", "DRIFT_UNEXPECTED"}

\* C7: after a completed run the action list has exactly one entry for each
\* report row whose status is WARN or DRIFT_UNEXPECTED, with the row's project
\* id, module id and status, and no entry for a row of any other status.
C7_ActionsFollowReport ==
    pc = "done" =>
        LET actions == written[1].actions.actions
            entries(pid, mid) == {k \in DOMAIN actions :
                                     /\ actions[k].project_id = pid
                                     /\ actions[k].module_id = mid}
        IN /\ \A pr \in WrittenRows :
                 IF pr[2].status \in ActionStatuses
                 THEN /\ Cardinality(entries(pr[1], pr[2].module_id)) = 1
                      /\ \A k \in entries(pr[1], pr[2].module_id) :
                             actions[k].status = pr[2].status
                 ELSE entries(pr[1], pr[2].module_id) = {}
           /\ \A k \in DOMAIN actions :
                 \E pr \in WrittenRows :
                     pr[1] = actions[k].project_id /\ pr[2].module_id = actions[k].module_id

\* C7's case: a completed run whose report has a WARN row, a DRIFT_UNEXPECTED
\* row and a row of another status, and whose action list has two entries.
C7_Witness ==
    /\ pc = "done"
    /\ \E pr \in WrittenRows : pr[2].status = "WARN"
    /\ \E pr \in WrittenRows : pr[2].status = "DRIFT_UNEXPECTED"
    /\ \E pr \in WrittenRows : pr[2].status \in {"MISSING", "OK_EXPECTED"}
    /\ Len(written[1].actions.actions) = 2

\* A sequence of ids in ascending order.
Ascending(ids) == \A i, j \in DOMAIN ids : i < j => ids[i] < ids[j]

\* C8: whatever the declaration order of projects and modules, the report's
\* projects are in ascending order of project id, each project's rows are in
\* ascending order of module id, and every configured module has exactly one
\* row in every project.
C8_ReportOrder ==
    pc = "done" =>
        LET projects == written[1].report.projects
        IN /\ Ascending([i \in DOMAIN projects |-> projects[i].id])
           /\ {projects[i].id : i \in DOMAIN projects}
              = {config.projects[i].id : i \in DOMAIN config.projects}
           /\ Len(projects) = Len(config.projects)
           /\ \A i \in DOMAIN projects :
                 LET rows == projects[i].modules
                 IN /\ Ascending([k \in DOMAIN rows |-> rows[k].module_id])
                    /\ \A n \in DOMAIN config.modules :
                          Cardinality({k \in DOMAIN rows :
                                          rows[k].module_id = config.modules[n].id}) = 1
                    /\ Len(rows) = Len(config.modules)

\* C8's case: projects and modules both declared in descending order of id,
\* and a completed run whose report lists them in ascending order.
C8_Witness ==
    /\ pc = "done"
    /\ config.projects = <<Project2, Project1>>
    /\ config.modules = <<Module2, Module1>>
    /\ [i \in DOMAIN written[1].report.projects |-> written[1].report.projects[i].id]
       = <<1, 2>>
    /\ \A i \in DOMAIN written[1].report.projects :
          [k \in DOMAIN written[1].report.projects[i].modules |->
              written[1].report.projects[i].modules[k].module_id] = <<1, 2>>

\* One module of a run computed as a whole: the result of _analyze_module
\* joins the rows and the evidence of the project, as in AnalyzeModule.
WholeModuleStep(acc, module_id, r) ==
    [raised |-> r.raised, error |-> r.error,
     rows |-> IF r.raised THEN acc.rows ELSE Append(acc.rows, r.row[1]),
     evidence |-> DictSet(acc.evidence, module_id, r.evidence),
     store |-> r.store, memo |-> r.memo, git |-> r.git]

RECURSIVE WholeModules(_, _, _, _, _, _)
\* The modules of one project of a run computed as a whole, up to the first
\* one that raises.
WholeModules(acc, cfg, trees, root_path, matched, mods) ==
    IF mods = <<>> \/ acc.raised THEN acc
    ELSE WholeModules(
             WholeModuleStep(acc, Head(mods).id,
                 _analyze_module(cfg, [trees EXCEPT !.git = acc.git], acc.store, acc.memo,
                                 root_path, matched, Head(mods))),
             cfg, trees, root_path, matched, Tail(mods))

\* One project of a run computed as a whole, as in BeginProject to EndProject.
WholeProjectStep(acc, p, active, done) ==
    [raised |-> done.raised, error |-> done.error,
     report |-> IF done.raised THEN acc.report
                ELSE Append(acc.report, ProjectReport(p, active, done.rows)),
     evidence |-> IF done.raised THEN acc.evidence
                  ELSE DictSet(acc.evidence, p.id, ProjectEvidence(p, done.evidence)),
     store |-> done.store, memo |-> done.memo, git |-> done.git]

\* One project of a run computed as a whole, given what _resolve_project_path
\* returned.
WholeProjectResolved(acc, cfg, trees, p, resolved) ==
    IF resolved.raised
    THEN [acc EXCEPT !.raised = TRUE, !.error = resolved.error, !.git = resolved.git]
    ELSE WholeProjectStep(acc, p, _active_requirements(cfg.matrix, p.id),
             WholeModules([raised |-> FALSE, error |-> "", rows |-> <<>>,
                           evidence |-> <<>>, store |-> acc.store, memo |-> acc.memo,
                           git |-> resolved.git],
                          cfg, trees, resolved.path[1],
                          _matching_rules(cfg.expectations.rules, p.id,
                                          _active_requirements(cfg.matrix, p.id)),
                          SortedById(cfg.modules)))

RECURSIVE WholeProjects(_, _, _, _)
\* The projects of a run computed as a whole, up to the first one that raises.
WholeProjects(acc, cfg, trees, projects) ==
    IF projects = <<>> \/ acc.raised THEN acc
    ELSE WholeProjects(
             WholeProjectResolved(acc, cfg, trees, Head(projects),
                 _resolve_project_path([trees EXCEPT !.git = acc.git], Head(projects))),
             cfg, trees, Tail(projects))

\* A run of a new process over a configuration and trees that starts with an
\* empty file and module cache: whether it raised and what, its report and
\* its evidence.
ColdRun(cfg, trees) ==
    WholeProjects([raised |-> FALSE, error |-> "", report |-> <<>>, evidence |-> <<>>,
                   store |-> EmptyStore, memo |-> <<>>, git |-> trees.git],
                  cfg, trees, SortedById(cfg.projects))

\* C9: for the same files and configuration, a run that starts with the cache
\* earlier runs left (over these or other files) ends as a run that starts
\* with an empty cache: unless the transport failed, it completes exactly when
\* that one does, with the same report rows (status, score, rule, level,
\* target) and the same fingerprints in the evidence; and every record of the
\* file cache is the fingerprint that is computed from the text of its key.
C9_WarmCacheSameReport ==
    /\ pc \in {"done", "failed"} /\ exception # Some("GitError") =>
          \E cold \in {ColdRun(config, CurrentTrees(TRUE))} :
              /\ cold.raised <=> pc = "failed"
              /\ pc = "done" => /\ written[1].report.projects = cold.report
                                /\ written[1].evidence.projects = cold.evidence
    /\ \A key \in DOMAIN file_cache :
          /\ Tail(key) \in Texts
          /\ key = sha256_hex(Tail(key))
          /\ file_cache[key] = FileFingerprintTable[Tail(key)]
    /\ \A key \in DOMAIN module_cache : module_cache[key].sha256_normalized = key

\* C9's case: a completed run that read every file and module fingerprint from
\* the cache, over trees other than those the cache was filled from one run
\* earlier, and that scored a module.
C9_Witness ==
    /\ pc = "done"
    /\ stats.file_cache_misses = 0 /\ stats.file_cache_hits > 0
    /\ stats.module_cache_misses = 0 /\ stats.module_cache_hits > 0
    /\ \E key \in DOMAIN file_cache : \A root \in DOMAIN fs : Tail(key) \notin Range(fs[root])
    /\ \E pr \in WrittenRows : pr[2].score # None /\ pr[2].score # Some(10000)

\* The expectation that governs a module in a project has a baseline target
\* whose baseline_id is not the id of a configured baseline (a missing
\* baseline_id is no such id either).
GovernedByUnconfigured(project_id, module_id) ==
    LET expectation == Governing(project_id, module_id)
    IN /\ expectation # None
       /\ expectation[1].target.type = "baseline"
       /\ \/ expectation[1].target.baseline_id = None
          \/ expectation[1].target.baseline_id[1] \notin BaselineIds

\* The expectation that governs a module in a project names a baseline id
\* that is not configured, and the module matches a file of the project.
ReachesUnknownBaseline(project_id, module_id) ==
    /\ Governing(project_id, module_id) # None
    /\ UnknownBaseline(Governing(project_id, module_id)[1].target)
    /\ MatchedFiles(ProjectTree(ProjectOf(project_id)), ModuleOf(module_id)) # {}

\* C10 as claimed: for every project and module whose governing expectation
\* has a baseline target whose baseline_id is not the id of any configured
\* baseline, the run aborts and no status is reported for the module: no row
\* is reported for such a module, and no run with such a module completes.
C10_AsClaimed ==
    /\ \A pr \in ReportedRows : ~GovernedByUnconfigured(pr[1], pr[2].module_id)
    /\ pc = "done" =>
          \A p \in Range(config.projects), m \in Range(config.modules) :
              ~GovernedByUnconfigured(p.id, m.id)

\* C10, amended: for every project and module whose governing expectation has
\* a baseline target with a baseline_id that is present and is not the id of
\* any configured baseline, and whose module matches at least one file of the
\* project, the run aborts with a fatal error (exit code 1, nothing written)
\* and no status is reported for that module.  (A run aborts with a
\* ValueError at such a module and nowhere else.)
C10_UnknownBaselineAborts ==
    /\ \A pr \in ReportedRows : ~ReachesUnknownBaseline(pr[1], pr[2].module_id)
    /\ pc = "done" =>
          \A p \in Range(config.projects), m \in Range(config.modules) :
              ~ReachesUnknownBaseline(p.id, m.id)
    /\ pc = "failed" /\ exception = Some("ValueError") =>
          /\ ReachesUnknownBaseline(project[1].id, Head(modules_left).id)
          /\ exit_code = Some(1)
          /\ written = None

\* C10's case: project 1 is reported, then module 1 of project 2, which has
\* files and an expectation on baseline 2 that is not configured, aborts the
\* run.
C10_Witness ==
    /\ pc = "failed"
    /\ exit_code = Some(1)
    /\ Len(report_projects) = 1
    /\ project[1].id = 2
    /\ Head(modules_left).id = 1
    /\ ReachesUnknownBaseline(2, 1)
    /\ report_modules = <<>>

\* The five artifacts of a run.
Artifacts == {"report", "evidence", "actions", "manifest", "cache_stats"}

\* C11: the artifacts of a run are all-or-nothing with respect to fatal
\* analysis errors.  When the analysis of a project raises (a git command that
\* fails, a baseline id that is not configured), none of the five artifacts is
\* written for the run and the exit code is 1; a run that ends without an
\* exception has written all five and its exit code is 0, also when rows are
\* MISSING or UNMAPPED; and at no moment is only a part of them written.
C11_ArtifactsAllOrNothing ==
    /\ exception \in {Some("GitError"), Some("ValueError")}
           => pc = "failed" /\ written = None /\ exit_code = Some(1)
    /\ pc = "failed" => exception \in {Some("GitError"), Some("ValueError")}
    /\ pc = "done" => /\ exception = None
                      /\ written # None
                      /\ exit_code = Some(0)
    /\ written # None => pc = "done" /\ DOMAIN written[1] = Artifacts
    /\ config # None /\ exception = None /\ pc \notin {"ready", "projects", "modules"}
           => pc = "done"

\* C11's case: the second project's checkout fails after the first project
\* was analyzed without a flaw, and nothing is written.
C11_Witness ==
    /\ pc = "failed"
    /\ exception = Some("GitError")
    /\ Len(report_projects) = 1
    /\ written = None
    /\ exit_code = Some(1)

\* The mappings listed under a key of a document of the directory, when the
\* file holds a mapping with such a list.
ListedIn(dir, name, key) ==
    IF dir[name].file # "yaml" THEN {}
    ELSE IF dir[name].node.kind # "mapping" THEN {}
    ELSE IF key \notin DOMAIN dir[name].node.data THEN {}
    ELSE IF dir[name].node.data[key].kind # "list" THEN {}
    ELSE {item.data : item \in {x \in Range(dir[name].node.data[key].data) :
                                    x.kind = "mapping"}}

\* A file of the directory that is missing or malformed, or whose document
\* has a version marker other than 1.
FileFlawed(f) ==
    \/ f.file # "yaml"
    \/ f.node.kind # "mapping"
    \/ DictFind(f.node.data, "version") # Some(1)

\* A source descriptor that is malformed: no mapping, a type other than git
\* and fs, an fs source without a path, a git source without a repository.
SourceFlawed(item) ==
    \/ "source" \notin DOMAIN item
    \/ item.source.kind # "mapping"
    \/ DictFind(item.source.data, "type") \notin {Some("git"), Some("fs")}
    \/ DictFind(item.source.data, "type") = Some("fs") /\ "path" \notin DOMAIN item.source.data
    \/ DictFind(item.source.data, "type") = Some("git") /\ "repo" \notin DOMAIN item.source.data

\* A target descriptor that is malformed: no mapping, or a type that is
\* neither baseline nor signature.
TargetFlawed(exp) ==
    \/ "target" \notin DOMAIN exp
    \/ exp.target.kind # "mapping"
    \/ DictFind(exp.target.data, "type") \notin {Some("baseline"), Some("signature")}

\* The configuration errors C12 lists, read off the files of the directory.
ConfigurationError(dir) ==
    \/ \E name \in DOMAIN dir : FileFlawed(dir[name])
    \/ \E item \in ListedIn(dir, "projects", "projects") \cup
                   ListedIn(dir, "baselines", "baselines") : SourceFlawed(item)
    \/ \E rule \in ListedIn(dir, "expectations", "rules") :
          \E k \in DOMAIN DictGet(rule, "expect", <<>>) : TargetFlawed(rule.expect[k])

\* C12: every configuration error (a missing or malformed file, a version
\* marker other than 1 in any of the six documents, a malformed source
\* descriptor, a malformed target descriptor such as a type that is neither
\* baseline nor signature) is surfaced before any project is analyzed and makes
\* the command return 2: once the command has looked at such a directory it
\* has stopped with exit code 2, and no analysis has begun.
C12_ConfigErrorsRejected ==
    ConfigurationError(config_dir) /\ pc # "start"
        => pc = "rejected" /\ exit_code = Some(2) /\ config = None

\* C12's case: the command has run over a directory whose expectations name
\* a target of type "other", and has come to its end: the target is in a row
\* of the written report, with the status MISSING, and the exit code is 0.
C12_Witness ==
    /\ pc = "done"
    /\ ConfigurationError(config_dir)
    /\ exit_code = Some(0)
    /\ \E i \in DOMAIN written[1].report.projects :
          \E k \in DOMAIN written[1].report.projects[i].modules :
             LET row == written[1].report.projects[i].modules[k]
             IN /\ row.status = "MISSING"
                /\ row.target # None
                /\ row.target[1].type = "other"

\* The critical_files lists a module may be given instead of its own.
CriticalLists == {<<>>, <<2>>, <<3, 1>>}

\* The configuration with the critical_files of its modules replaced: lists
\* maps a module id to a list.
WithCriticalFiles(cfg, lists) ==
    [cfg EXCEPT !.modules =
        [i \in DOMAIN @ |-> [@[i] EXCEPT !.critical_files = lists[cfg.modules[i].id]]]]

\* The evidence without the two fields that tell of critical files.
WithoutCriticalFiles(evidence) ==
    [id \in DOMAIN evidence |->
        [evidence[id] EXCEPT !.modules =
            [m \in DOMAIN @ |-> [module_id |-> @[m].module_id, files |-> @[m].files,
                                 module_fingerprint |-> @[m].module_fingerprint]]]]

\* C13: critical_files never influence a status or a score.  A completed run
\* has the report (every row with its status, score, rule, level and target)
\* of the run over the same trees and the same configuration but for the
\* critical_files lists of its modules, whatever these lists are, and the two
\* differ in the evidence only in critical_files and missing_critical_files.
C13_CriticalFilesOnlyInEvidence ==
    pc = "done" =>
        \A lists \in [{m.id : m \in Range(config.modules)} -> CriticalLists] :
            \E other \in {ColdRun(WithCriticalFiles(config, lists), CurrentTrees(TRUE))} :
                /\ ~other.raised
                /\ other.report = written[1].report.projects
                /\ WithoutCriticalFiles(other.evidence)
                   = WithoutCriticalFiles(written[1].evidence.projects)
                /\ \A id \in DOMAIN other.evidence : \A m \in DOMAIN other.evidence[id].modules :
                      other.evidence[id].modules[m].critical_files = lists[m]

\* C13's case: a completed run in which a module with a critical file that
\* is not among its files was scored.
C13_Witness ==
    /\ pc = "done"
    /\ \E pr \in WrittenRows :
          /\ pr[2].score # None
          /\ written[1].evidence.projects[pr[1]].modules[pr[2].module_id]
                 .missing_critical_files # <<>>

\* The snapshot_ref entries written for a project id: those of the report,
\* the evidence and the manifest.
WrittenSnapshotRefs(id) ==
    {written[1].report.projects[i].snapshot_ref :
        i \in {k \in DOMAIN written[1].report.projects : written[1].report.projects[k].id = id}}
    \cup {written[1].manifest.projects[i].snapshot_ref :
        i \in {k \in DOMAIN written[1].manifest.projects :
                  written[1].manifest.projects[k].id = id}}
    \cup {written[1].evidence.projects[id].snapshot_ref}

\* C14: in every project entry of the report, the evidence and the manifest,
\* snapshot_ref is the configured git ref when the project's source is git,
\* and the resolved path (the absolute path the resolver returns as the
\* project's root) when the source is a directory.
C14_SnapshotRefIsResolved ==
    pc = "done" =>
        \A p \in Range(config.projects) :
            WrittenSnapshotRefs(p.id) =
                {IF p.source.type = "git" THEN p.source.snapshot[1].ref
                 ELSE _resolve_project_path(CurrentTrees(TRUE), p).path[1]}

\* C14's case: a completed run over a project whose directory is configured
\* as a relative path; its entries carry the path as it is configured.
C14_Witness ==
    /\ pc = "done"
    /\ \E p \in Range(config.projects) :
          /\ p.source.type = "fs"
          /\ p.source.path.form = "relative"
          /\ WrittenSnapshotRefs(p.id) = {p.source.path}

\* A worktree of a ref of a repository key: a directory that "git worktree
\* add" checked out for that ref.
HasWorktree(g, key, ref) ==
    \E w \in g.worktrees :
        w.key = key /\ w.dir = ref /\ w.checkout # None /\ w.checkout[1].ref = ref

\* Directory a lies above directory b.
DirAbove(a, b) == Len(a) < Len(b) /\ SubSeq(b, 1, Len(a)) = a

\* C15: over any sequence of calls that share a cache directory, each call
\* runs a mirror clone exactly when the mirror of the repository key is
\* absent, and a fetch otherwise; a call whose clone or fetch did not fail
\* runs a worktree checkout exactly when the worktree of (key, ref) is absent;
\* a worktree that exists is not checked out again and nothing in its
\* directory is changed by a later call; so a mirror is cloned at most once
\* and a worktree is created at most once.
C15_CloneAndCheckoutOnce ==
    /\ git_call # None =>
          LET c == git_call[1]
              key == _hash_repo(c.repo)
              ran == Range(c.ran)
          IN /\ "clone" \in ran <=> key \notin DOMAIN c.before.repos
             /\ "fetch" \in ran <=> key \in DOMAIN c.before.repos
             /\ ~c.raised \/ "worktree add" \in ran
                   => ("worktree add" \in ran <=> ~HasWorktree(c.before, key, c.ref))
             /\ \A w \in c.before.worktrees :
                   w.checkout # None
                       => /\ w \in git.worktrees
                          /\ \A n \in git.worktrees \ c.before.worktrees :
                                ~(n.key = w.key /\ DirAbove(w.dir, n.dir))
    /\ \A key \in DOMAIN git_count.clones : git_count.clones[key] <= 1
    /\ \A made \in DOMAIN git_count.adds : git_count.adds[made] <= 1

\* C15's case: a second call for a repository and a ref that are checked out
\* already fetches the mirror and leaves the worktree alone.
C15_Witness ==
    /\ git_call # None
    /\ ~git_call[1].raised
    /\ git_call[1].ran = <<"fetch">>
    /\ HasWorktree(git_call[1].before, _hash_repo(git_call[1].repo), git_call[1].ref)
    /\ git = git_call[1].before

\* The cache directory a call was made on, as it is now.
CacheOf(call) == IF call.cache = "file" THEN file_cache ELSE module_cache

\* The calls of the last module analysis that wrote a record, by their index.
SetCalls == {i \in DOMAIN cache_calls : cache_calls[i].op = "set"}

\* A get of the same cache and key that came earlier in the calls and missed.
MissedBefore(i) ==
    \E j \in 1..(i - 1) :
        /\ cache_calls[j].op = "get" /\ cache_calls[j].data = None
        /\ cache_calls[j].cache = cache_calls[i].cache
        /\ cache_calls[j].key = cache_calls[i].key

\* C16: in both caches, over any sequence of runs and trees, a set for a key
\* comes only after a get for that key missed, the record a set wrote is the
\* record stored under the key, and no step removes an entry or changes the
\* record stored under a key.
C16_EntriesImmutable ==
    /\ [](\A i \in SetCalls :
              /\ MissedBefore(i)
              /\ cache_calls[i].key \in DOMAIN CacheOf(cache_calls[i])
              /\ CacheOf(cache_calls[i])[cache_calls[i].key] = cache_calls[i].data[1])
    /\ [][ /\ \A key \in DOMAIN file_cache :
                  key \in DOMAIN file_cache' /\ file_cache'[key] = file_cache[key]
           /\ \A key \in DOMAIN module_cache :
                  key \in DOMAIN module_cache' /\ module_cache'[key] = module_cache[key]
         ]_vars

\* C16's case: a module analysis finds one record in the cache and writes
\* another beside a record that an earlier module analysis wrote.
C16_Witness ==
    /\ \E i \in DOMAIN cache_calls :
           cache_calls[i].op = "get" /\ cache_calls[i].data # None
    /\ \E i \in SetCalls : \E key \in DOMAIN CacheOf(cache_calls[i]) :
           /\ key # cache_calls[i].key
           /\ \A j \in SetCalls :
                  cache_calls[j].cache = cache_calls[i].cache => cache_calls[j].key # key

\* The calls of CacheStore that fingerprinting the next module of the project
\* makes, without any baseline.
OwnCalls ==
    LET tree == TreeAt(CurrentTrees(TRUE), project_path[1])
    IN _fingerprint_module(CurrentStore, tree,
                           _resolve_module_files(tree, Head(modules_left))).store.calls

\* The fingerprints of a baseline's tree for every configured module that has
\* a file in it.
BaselineEntry(baseline_id) ==
    LET b == CHOOSE b \in Range(config.baselines) : b.id = baseline_id
        having == {m \in Range(config.modules) : MatchedFiles(SourceTree(b.source), m) # {}}
    IN [id \in {m.id : m \in having} |->
           ModuleFingerprintOf(SourceTree(b.source), ModuleOf(id))]

\* A lookup of a module against a memoized baseline, made while no git
\* command can succeed: it does not raise, it returns the memoized fingerprint
\* or absent, and it calls neither the cache nor git.
MemoizedLookup(baseline_id, m) ==
    \E r \in {_baseline_module_fingerprint(config, CurrentTrees(FALSE), CurrentStore,
                                           _baseline_cache, baseline_id, m)} :
        /\ ~r.raised
        /\ r.fp = DictFind(BaselineEntry(baseline_id), m.id)
        /\ r.fp = None <=> MatchedFiles(SourceTree(
                               (CHOOSE b \in Range(config.baselines) :
                                    b.id = baseline_id).source), m) = {}
        /\ r.store = CurrentStore /\ r.memo = _baseline_cache /\ r.git = git

\* C17: within a run a baseline id, once memoized, keeps its entry, which has
\* the fingerprint of the baseline's tree for every configured module that has
\* files in it; a lookup of any module against a memoized id returns that
\* entry's fingerprint, or absent when the tree has no file of the module, and
\* resolves no source and fingerprints nothing; so a module analysis that
\* memoizes no new baseline makes only the cache calls of the project's own
\* module and runs no git command.
C17_BaselineMemoizedOnce ==
    /\ [](\A baseline_id \in DOMAIN _baseline_cache :
              /\ baseline_id \in BaselineIds
              /\ _baseline_cache[baseline_id] = BaselineEntry(baseline_id)
              /\ \A m \in Range(config.modules) : MemoizedLookup(baseline_id, m))
    /\ [][ /\ pc' # "start"
              => \A baseline_id \in DOMAIN _baseline_cache :
                     /\ baseline_id \in DOMAIN _baseline_cache'
                     /\ _baseline_cache'[baseline_id] = _baseline_cache[baseline_id]
           /\ /\ pc = "modules" /\ modules_left # <<>> /\ modules_left' # modules_left
              /\ DOMAIN _baseline_cache' = DOMAIN _baseline_cache
              => cache_calls' = OwnCalls /\ git' = git
         ]_vars

\* C17's case: the second project of a run is scored against the git baseline
\* that the first project was scored against.
C17_Witness ==
    /\ pc = "modules" /\ Len(report_projects) = 1 /\ report_modules # <<>>
    /\ 3 \in DOMAIN _baseline_cache
    /\ \E i \in DOMAIN report_projects[1].modules :
           /\ report_projects[1].modules[i].score # None
           /\ report_projects[1].modules[i].target[1].baseline_id = Some(3)
    /\ LET row == report_modules[Len(report_modules)]
       IN /\ row.score # None
          /\ row.target[1].type = "baseline"
          /\ row.target[1].baseline_id = Some(3)
    /\ cache_calls # <<>>

\* How many of some calls were gets on one of the two caches that hit
\* (hit = TRUE) or missed (hit = FALSE).
Gets(calls, cache, hit) ==
    Cardinality({i \in DOMAIN calls :
                    /\ calls[i].op = "get" /\ calls[i].cache = cache
                    /\ (calls[i].data # None) = hit})

\* The record stored under the key of the i-th call before that call: the one
\* the cache directory held before the calls, or one that an earlier call set.
StoredBefore(before, calls, i) ==
    \/ calls[i].key \in DOMAIN before /\ calls[i].data = Some(before[calls[i].key])
    \/ \E j \in 1..(i - 1) :
           /\ calls[j].op = "set" /\ calls[j].cache = calls[i].cache
           /\ calls[j].key = calls[i].key /\ calls[j].data = calls[i].data

\* C18: the four counters are zero when a run starts and no step of the run
\* lowers one; over the calls of a module analysis each get adds one to the
\* hit counter or to the miss counter of its own cache and to nothing else,
\* so each counter grows by the number of gets on its cache that hit or
\* missed, and a set adds nothing; a get hits only on a key whose record was
\* stored before, in an earlier run or earlier in this one; a step without
\* calls leaves the counters alone.
C18_CountersCountGets ==
    /\ [](pc \in {"start", "ready"} => stats = NoStats)
    /\ [][ pc' # "start" =>
             IF pc = "modules" /\ modules_left # <<>>
             THEN /\ stats'.file_cache_hits
                        = stats.file_cache_hits + Gets(cache_calls', "file", TRUE)
                  /\ stats'.file_cache_misses
                        = stats.file_cache_misses + Gets(cache_calls', "file", FALSE)
                  /\ stats'.module_cache_hits
                        = stats.module_cache_hits + Gets(cache_calls', "module", TRUE)
                  /\ stats'.module_cache_misses
                        = stats.module_cache_misses + Gets(cache_calls', "module", FALSE)
                  /\ \A i \in DOMAIN cache_calls' :
                         cache_calls'[i].op = "get" /\ cache_calls'[i].data # None
                             => StoredBefore(IF cache_calls'[i].cache = "file"
                                             THEN file_cache ELSE module_cache,
                                             cache_calls', i)
             ELSE stats' = stats
         ]_vars

\* C18's case: the module analyses of a run have hit and missed in both caches,
\* and the last one hit in the file cache and wrote a record.
C18_Witness ==
    /\ stats.file_cache_hits > 0 /\ stats.file_cache_misses > 0
    /\ stats.module_cache_hits > 0 /\ stats.module_cache_misses > 0
    /\ Gets(cache_calls, "file", TRUE) > 0 /\ Gets(cache_calls, "module", FALSE) > 0
    /\ SetCalls # {}

\* C19: when two processes share a cache directory and interleave the steps
\* of their gets and sets on the same keys without a lock, no get raises and
\* every get returns absent or the complete record of its key, and when both
\* processes have ended every file holds the record a single writer stores.
C19_RaceIsSafe ==
    /\ \A p \in Procs :
          /\ procs[p].pc # "crashed"
          /\ \A i \in DOMAIN procs[p].returned :
                \/ procs[p].returned[i] = None
                \/ \E text \in RaceTexts :
                       procs[p].returned[i] = Some(FileFingerprintTable[text])
    /\ (\A p \in Procs : procs[p].pc = "end")
          => \A key \in DOMAIN cache_dir :
                 cache_dir[key] = json_dumps(FileFingerprintTable[Tail(key)])

\* C19's case: both processes missed on the same key and both wrote its
\* record, and both have ended.
C19_Witness ==
    /\ \A p \in Procs : procs[p].pc = "end"
    /\ \E key \in DOMAIN cache_dir :
          /\ \A p \in Procs : key \in procs[p].wrote
          /\ cache_dir[key] = json_dumps(FileFingerprintTable[Tail(key)])

\* The requirement ids that the matrix marks must_have = true for a project.
MarkedMustHave(project_id) ==
    {req.id : req \in
        {req \in UNION {Range(config.matrix[i].requires) :
                           i \in {i \in DOMAIN config.matrix :
                                     config.matrix[i].id = project_id}} :
            DictGet(req, "must_have", FALSE) = TRUE}}

\* C20: the active requirements of the project under analysis are the ids that
\* the matrix marks must_have = true for it (none with must_have false or
\* missing, none for a project without a matrix entry), and the report of a
\* project lists exactly these ids in ascending order, each id once.
C20_ActiveRequirements ==
    /\ pc = "modules" => Range(active_requirements) = MarkedMustHave(project[1].id)
    /\ \A i \in DOMAIN report_projects :
          LET listed == report_projects[i].requirements
          IN /\ Range(listed) = MarkedMustHave(report_projects[i].id)
             /\ \A j, k \in DOMAIN listed : j < k => listed[j] < listed[k]

\* C20's case: a run has reported a project whose matrix entry marks two
\* requirements and leaves a third unmarked, and a project without an entry.
C20_Witness ==
    /\ Len(report_projects) = 2
    /\ \E i \in DOMAIN report_projects :
          /\ report_projects[i].requirements = <<1, 2>>
          /\ \E k \in DOMAIN config.matrix :
                /\ config.matrix[k].id = report_projects[i].id
                /\ Len(config.matrix[k].requires) = 3
    /\ \E i \in DOMAIN report_projects :
          /\ report_projects[i].requirements = <<>>
          /\ config.matrix # <<>>
          /\ \A k \in DOMAIN config.matrix : config.matrix[k].id # report_projects[i].id

\* C21: after any sequence of calls, the path a call returns for a repository
\* and a ref is the directory of a worktree that "git worktree add" checked
\* out for that ref of that repository, never a directory made for another
\* ref or made only as the parent of another ref's worktree.
C21_PathIsWorktreeOfRef ==
    git_call # None /\ ~git_call[1].raised =>
        LET c == git_call[1]
        IN /\ c.path = Some(WorktreeDir(_hash_repo(c.repo), c.ref))
           /\ HasWorktree(git, _hash_repo(c.repo), c.ref)
           /\ \A w \in git.worktrees :
                 w.key = _hash_repo(c.repo) /\ w.dir = c.ref
                     => w.checkout # None /\ w.checkout[1].ref = c.ref

\* C21's case: "release" was checked out before "release/1.0", and the call
\* for "release/1.0" returns the worktree checked out for it.
C21_Witness ==
    /\ git_call # None /\ ~git_call[1].raised
    /\ git_call[1].ref = <<"release", "1.0">>
    /\ git_call[1].path = Some(WorktreeDir(_hash_repo(git_call[1].repo), <<"release", "1.0">>))
    /\ HasWorktree(git_call[1].before, _hash_repo(git_call[1].repo), <<"release">>)
    /\ HasWorktree(git, _hash_repo(git_call[1].repo), <<"release", "1.0">>)

\* C22: in every row of the report a completed run wrote, the score is null
\* exactly when the status is MISSING or UNMAPPED; expected_rule_id,
\* expected_level and target are all null when the status is UNMAPPED and all
\* non-null when it is OK_BASELINE, OK_EXPECTED, WARN or DRIFT_UNEXPECTED;
\* OK_BASELINE comes only with a baseline target and OK_EXPECTED only with a
\* signature target.
C22_RowFieldsFollowStatus ==
    pc = "done" =>
        \A pr \in WrittenRows :
            LET row == pr[2]
            IN /\ row.status \in ScoredStatuses \cup {"MISSING", "UNMAPPED"}
               /\ row.score = None <=> row.status \in {"MISSING", "UNMAPPED"}
               /\ row.status = "UNMAPPED"
                     => /\ row.expected_rule_id = None
                        /\ row.expected_level = None
                        /\ row.target = None
               /\ row.status \in ScoredStatuses
                     => /\ row.expected_rule_id # None
                        /\ row.expected_level # None
                        /\ row.target # None
               /\ row.status = "OK_BASELINE" => row.target[1].type = "baseline"
               /\ row.status = "OK_EXPECTED" => row.target[1].type = "signature"

\* C22's case: the report of a completed run has a row OK_BASELINE, a row
\* MISSING that has its expectation, and a row MISSING that has none.
C22_Witness ==
    /\ pc = "done"
    /\ \E pr \in WrittenRows : pr[2].status = "OK_BASELINE" /\ pr[2].score # None
    /\ \E pr \in WrittenRows : pr[2].status = "MISSING" /\ pr[2].target # None
    /\ \E pr \in WrittenRows : pr[2].status = "MISSING" /\ pr[2].target = None

====
